---- MODULE Spec2Model ----
(***************************************************************************)
(* Hybrid pricing engine (lib/stripe/config.ts) and the seat-count change  *)
(* flows of the user-management server actions (addUserToOrganization,     *)
(* removeUserFromOrganization) with the Stripe subscription they update    *)
(* and the webhook that mirrors the subscription into the database.        *)
(***************************************************************************)
EXTENDS Integers, Sequences, FiniteSets, TLC

VARIABLES
    env,        \* process.env: the four STRIPE_PRICE_ID_* variables
    arg,        \* seat count handed to a pricing function
    call,       \* pricing function that was called ("none" before the call)
    ret,        \* what the call produced: [kind, value]
    userRole,   \* users table: role of each named user of the organization, "NONE" = no row
    others,     \* users table: number of further users of the organization
    maxMembers, \* organizations.max_members
    dbSub,      \* subscriptions row of the organization: [present, quantity, status,
                \* cancelAtPeriodEnd, stripeSubscriptionId]
    stripe,     \* the provider's subscription: [items, totalSeats, nextId, nextEvent,
                \* status, cancel_at_period_end]
    events,     \* customer.subscription.updated events not yet delivered
    proc,       \* per caller: position in the server action and its local variables
    opsLeft,    \* server actions that may still be started
    sessions,   \* the provider's checkout and billing-portal sessions
    response,   \* what the webhook endpoint answered to the last request
    subscriptions, \* subscriptions table as rows, where overlapping deliveries write it
    hooks,         \* runs of the webhook endpoint that overlap, each at its await
    outsiderRole, \* users table: role of the user of another organization
    discussions,  \* discussions table: [organizationId, isActive, isLocked] per id
    messages,     \* messages table, in order of creation
    messageList,   \* MessageList: the messages state of the component
    channel,       \* changes of the messages table announced to the channel
    fetches,       \* runs of the channel's callbacks, each at its await
    callbacksLeft  \* callbacks the channel may still invoke

vars == << env, arg, call, ret, userRole, others, maxMembers, dbSub, stripe,
           events, proc, opsLeft, sessions, response, subscriptions, hooks,
           outsiderRole, discussions, messages,
           messageList, channel, fetches, callbacksLeft >>

pricingVars == << arg, call, ret >>
hookVars == << sessions, response >>
deliveryVars == << subscriptions, hooks >>
boardVars == << outsiderRole, discussions, messages >>
clientVars == << messageList, channel, fetches, callbacksLeft >>
\* the organization, the provider and the callers
flowState == << userRole, others, maxMembers, dbSub, stripe, events, proc, opsLeft >>
flowVars == << userRole, others, maxMembers, dbSub, stripe, events, proc, opsLeft,
              hookVars, deliveryVars, boardVars >>

-----------------------------------------------------------------------------
(* Bounds of the model                                                     *)

\* largest seat count handed to a pricing function
MaxSeatInput == 260
\* seat counts below zero handed to a pricing function: -NegSeatInputs .. -1
NegSeatInputs == 3
\* server actions started in one behaviour of the flows
MaxOps == 2
\* seats bought at checkout by the organizations that grow by adding users
PurchasedSeats == 77

-----------------------------------------------------------------------------
(* lib/stripe/config.ts                                                    *)

FLAT_FEE_CENTS == 1999
FREE_SEATS_THRESHOLD == 50

\* maxSeats: number | null.  A bound m is the set {m}, null is the empty set.
Null == {}
Some(m) == {m}

\* faulty variant: the Growth tier ends at 74 seats, no tier holds 75
PRICING_TIERS_Gap ==
    << [minSeats |-> 1,   maxSeats |-> Some(50),  pricePerPaidSeat |-> 0,   label |-> "Freemium"],
       [minSeats |-> 51,  maxSeats |-> Some(74),  pricePerPaidSeat |-> 999, label |-> "Growth"],
       [minSeats |-> 76,  maxSeats |-> Some(200), pricePerPaidSeat |-> 799, label |-> "Thrive"],
       [minSeats |-> 201, maxSeats |-> Null,      pricePerPaidSeat |-> 599, label |-> "Enterprise"] >>

PRICING_TIERS ==
    << [minSeats |-> 1,   maxSeats |-> Some(50),  pricePerPaidSeat |-> 0,   label |-> "Freemium"],
       [minSeats |-> 51,  maxSeats |-> Some(75),  pricePerPaidSeat |-> 999, label |-> "Growth"],
       [minSeats |-> 76,  maxSeats |-> Some(200), pricePerPaidSeat |-> 799, label |-> "Thrive"],
       [minSeats |-> 201, maxSeats |-> Null,      pricePerPaidSeat |-> 599, label |-> "Enterprise"] >>

Max2(a, b) == IF a >= b THEN a ELSE b

MinOf(S) == CHOOSE x \in S : \A y \in S : x <= y

\* faulty variant: the upper bound of a tier taken as exclusive
TierMatchesExclusive(t, seats) ==
    seats >= t.minSeats /\ (t.maxSeats = Null \/ \A m \in t.maxSeats : seats < m)

\* faulty variant: the lower bound of a tier taken as exclusive
TierMatchesAboveMin(t, seats) ==
    seats > t.minSeats /\ (t.maxSeats = Null \/ \A m \in t.maxSeats : seats <= m)

\* the predicate of PRICING_TIERS.find
TierMatches(t, seats) ==
    seats >= t.minSeats /\ (t.maxSeats = Null \/ \A m \in t.maxSeats : seats <= m)

getPricingTier(seats) ==
    LET hits == { i \in 1..Len(PRICING_TIERS) : TierMatches(PRICING_TIERS[i], seats) }
    IN  IF hits = {}
        THEN PRICING_TIERS[Len(PRICING_TIERS)]
        ELSE PRICING_TIERS[MinOf(hits)]

\* faulty variant: every seat billed, the free seats not taken off
PaidSeatsNoThreshold(seats) == Max2(0, seats)

\* faulty variant: at least one paid seat whatever the seat count
PaidSeatsAtLeastOne(seats) == Max2(1, seats - FREE_SEATS_THRESHOLD)

\* faulty variant: the seats above the threshold without the clamp at 0
PaidSeatsUnclamped(seats) == seats - FREE_SEATS_THRESHOLD

\* Math.max(0, seats - FREE_SEATS_THRESHOLD)
PaidSeats(seats) == Max2(0, seats - FREE_SEATS_THRESHOLD)

\* faulty variant: graduated pricing, each paid seat billed at the rate of the
\* tier that seat falls in
calculateTotalCostGraduated(seats) ==
    LET inTier(t) ==
            Max2(0, MinOf({ seats } \cup t.maxSeats)
                        - Max2(t.minSeats, FREE_SEATS_THRESHOLD + 1) + 1)
        part(i) == inTier(PRICING_TIERS[i]) * PRICING_TIERS[i].pricePerPaidSeat
    IN  FLAT_FEE_CENTS + part(1) + part(2) + part(3) + part(4)

calculateTotalCost(seats) ==
    LET tier == getPricingTier(seats)
        paidSeats == PaidSeats(seats)
        variableCost == paidSeats * tier.pricePerPaidSeat
    IN  FLAT_FEE_CENTS + variableCost

\* faulty variant: the variable cost with the flat fee in it
calculateVariableCostWithFee(seats) ==
    LET tier == getPricingTier(seats)
        paidSeats == PaidSeats(seats)
    IN  FLAT_FEE_CENTS + paidSeats * tier.pricePerPaidSeat

calculateVariableCost(seats) ==
    LET tier == getPricingTier(seats)
        paidSeats == PaidSeats(seats)
    IN  paidSeats * tier.pricePerPaidSeat

\* value of an environment variable that is not set
Undefined == "undefined"

EnvNames == { "STRIPE_PRICE_ID_BASE_FEE", "STRIPE_PRICE_ID_GROWTH",
              "STRIPE_PRICE_ID_THRIVE", "STRIPE_PRICE_ID_ENTERPRISE" }

\* the deployment with every price id set
ConfiguredEnv ==
    [ STRIPE_PRICE_ID_BASE_FEE   |-> "price_base_fee",
      STRIPE_PRICE_ID_GROWTH     |-> "price_growth",
      STRIPE_PRICE_ID_THRIVE     |-> "price_thrive",
      STRIPE_PRICE_ID_ENTERPRISE |-> "price_enterprise" ]

\* every deployment: each variable set or not set
Environments ==
    { e \in [EnvNames -> {"price_base_fee", "price_growth", "price_thrive",
                          "price_enterprise", Undefined}] :
        \A n \in EnvNames : e[n] \in {ConfiguredEnv[n], Undefined} }

STRIPE_PRICE_IDS ==
    [ BASE_FEE   |-> env["STRIPE_PRICE_ID_BASE_FEE"],
      GROWTH     |-> env["STRIPE_PRICE_ID_GROWTH"],
      THRIVE     |-> env["STRIPE_PRICE_ID_THRIVE"],
      ENTERPRISE |-> env["STRIPE_PRICE_ID_ENTERPRISE"] ]

\* the switch over tier.label; <<>> is the default branch (no tier price)
TierPriceId(label) ==
    CASE label = "Growth"     -> << STRIPE_PRICE_IDS.GROWTH >>
      [] label = "Thrive"     -> << STRIPE_PRICE_IDS.THRIVE >>
      [] label = "Enterprise" -> << STRIPE_PRICE_IDS.ENTERPRISE >>
      [] OTHER                -> << >>

\* faulty variant: the tier's price id pushed before the base fee
getStripePriceIdsTierFirst(seats) ==
    LET tier == getPricingTier(seats)
        priceIds == << STRIPE_PRICE_IDS.BASE_FEE >>
        paidSeats == PaidSeats(seats)
    IN  IF paidSeats > 0
        THEN IF TierPriceId(tier.label) = << >>
             THEN priceIds
             ELSE << TierPriceId(tier.label)[1] >> \o priceIds
        ELSE priceIds

getStripePriceIds(seats) ==
    LET tier == getPricingTier(seats)
        priceIds == << STRIPE_PRICE_IDS.BASE_FEE >>
        paidSeats == PaidSeats(seats)
    IN  IF paidSeats > 0
        THEN IF TierPriceId(tier.label) = << >>
             THEN priceIds
             ELSE Append(priceIds, TierPriceId(tier.label)[1])
        ELSE priceIds

\* faulty variant: the tier item pushed whatever the number of paid seats
getStripeSubscriptionItemsAlwaysTier(seats) ==
    LET tier == getPricingTier(seats)
        items == << [price |-> STRIPE_PRICE_IDS.BASE_FEE, quantity |-> 1] >>
        paidSeats == PaidSeats(seats)
    IN  IF TierPriceId(tier.label) = << >>
        THEN items
        ELSE Append(items, [price |-> TierPriceId(tier.label)[1], quantity |-> paidSeats])

getStripeSubscriptionItems(seats) ==
    LET tier == getPricingTier(seats)
        items == << [price |-> STRIPE_PRICE_IDS.BASE_FEE, quantity |-> 1] >>
        paidSeats == PaidSeats(seats)
    IN  IF paidSeats > 0
        THEN IF TierPriceId(tier.label) = << >>
             THEN items
             ELSE Append(items, [price |-> TierPriceId(tier.label)[1], quantity |-> paidSeats])
        ELSE items

-----------------------------------------------------------------------------
(* Calls of the pricing functions on a seat count                          *)

SeatInputs == (0 - NegSeatInputs) .. MaxSeatInput

Returned(v) == [kind |-> "returned", value |-> v]

CallGetPricingTier ==
    /\ call = "none"
    /\ call' = "getPricingTier"
    /\ ret' = Returned(getPricingTier(arg))
    /\ UNCHANGED << env, clientVars, deliveryVars, arg, flowVars >>

CallCalculateTotalCost ==
    /\ call = "none"
    /\ call' = "calculateTotalCost"
    /\ ret' = Returned(calculateTotalCost(arg))
    /\ UNCHANGED << env, clientVars, deliveryVars, arg, flowVars >>

CallCalculateVariableCost ==
    /\ call = "none"
    /\ call' = "calculateVariableCost"
    /\ ret' = Returned(calculateVariableCost(arg))
    /\ UNCHANGED << env, clientVars, deliveryVars, arg, flowVars >>

CallGetStripePriceIds ==
    /\ call = "none"
    /\ call' = "getStripePriceIds"
    /\ ret' = Returned(getStripePriceIds(arg))
    /\ UNCHANGED << env, clientVars, deliveryVars, arg, flowVars >>

CallGetStripeSubscriptionItems ==
    /\ call = "none"
    /\ call' = "getStripeSubscriptionItems"
    /\ ret' = Returned(getStripeSubscriptionItems(arg))
    /\ UNCHANGED << env, clientVars, deliveryVars, arg, flowVars >>

-----------------------------------------------------------------------------
(* metadata.totalSeats: newQuantity.toString() and parseInt(..., 10)       *)

RECURSIVE Digits(_)
\* the decimal digits of a non-negative integer, most significant first
Digits(n) == IF n < 10 THEN << n >> ELSE Append(Digits(n \div 10), n % 10)

\* Number.prototype.toString of a non-negative integer (a seat count)
NumberToString(n) == Digits(n)

RECURSIVE ParseDigits(_, _)
ParseDigits(s, acc) ==
    IF s = << >> THEN acc ELSE ParseDigits(Tail(s), acc * 10 + Head(s))

\* parseInt(subscription.metadata?.totalSeats || "1", 10); << >> is absent metadata
ParseTotalSeats(s) == IF s = << >> THEN ParseDigits(<< 1 >>, 0) ELSE ParseDigits(s, 0)

-----------------------------------------------------------------------------
(* The provider: stripe.subscriptions.retrieve / update                    *)

\* an item of a subscription: [id, price, quantity]
ItemIds(items) == { items[j].id : j \in 1..Len(items) }
ItemPrices(items) == { items[j].price : j \in 1..Len(items) }

IsDeletion(r) == "deleted" \in DOMAIN r

\* faulty variant: an existing item is never matched, every desired item is sent as new
MatchExistingNever(existing, newItem) == Null

\* currentSubscription.items.data.find(item => item.price.id === newItem.price)?.id
MatchExisting(existing, newItem) ==
    LET m == { j \in 1..Len(existing) : existing[j].price = newItem.price }
    IN  IF m = {} THEN Null ELSE Some(existing[MinOf(m)].id)

\* faulty variant: nothing is removed from the subscription
ItemsToDeleteNone(existing, newSubscriptionItems) == << >>

\* currentSubscription.items.data.filter(not in the new configuration).map({id, deleted})
ItemsToDelete(existing, newSubscriptionItems) ==
    LET gone == SelectSeq(existing,
                    LAMBDA e : ~ \E i \in 1..Len(newSubscriptionItems) :
                                    newSubscriptionItems[i].price = e.price)
    IN  [ k \in 1..Len(gone) |-> [id |-> Some(gone[k].id), deleted |-> TRUE] ]

\* newSubscriptionItems.map(newItem => ({id: existingItem?.id, price, quantity}))
StripeItems(existing, newSubscriptionItems) ==
    [ i \in 1..Len(newSubscriptionItems) |->
        [ id       |-> MatchExisting(existing, newSubscriptionItems[i]),
          price    |-> newSubscriptionItems[i].price,
          quantity |-> newSubscriptionItems[i].quantity ] ]

\* items: [...stripeItems, ...itemsToDelete]
ReconcileLineItems(existing, newSubscriptionItems) ==
    StripeItems(existing, newSubscriptionItems)
        \o ItemsToDelete(existing, newSubscriptionItems)

\* The provider accepts an update when every id it names is an item of the
\* subscription, every new item names a price, and no price ends up twice.
RequestAccepted(items, request) ==
    LET named    == { j \in 1..Len(request) : request[j].id # Null }
        deleted  == { j \in 1..Len(request) : IsDeletion(request[j]) }
        inserted == { j \in 1..Len(request) : request[j].id = Null }
        goneIds  == UNION { request[j].id : j \in deleted }
        kept     == { k \in 1..Len(items) : items[k].id \notin goneIds }
    IN  /\ \A j \in named : request[j].id \subseteq ItemIds(items)
        /\ \A j \in inserted :
              /\ ~ IsDeletion(request[j])
              /\ request[j].price # Undefined
              /\ \A k \in kept : items[k].price # request[j].price
              /\ \A i \in inserted : i # j => request[i].price # request[j].price

\* the item list after an accepted update: named items changed in place,
\* deleted items dropped, new items appended with fresh ids
ApplyRequest(items, request, nextId) ==
    LET upd(it) ==
            LET m == { j \in 1..Len(request) : request[j].id = Some(it.id) }
            IN  IF m = {} THEN it
                ELSE LET r == request[MinOf(m)]
                     IN  IF IsDeletion(r) THEN it
                         ELSE [ id       |-> it.id,
                                price    |-> IF r.price = Undefined THEN it.price ELSE r.price,
                                quantity |-> r.quantity ]
        goneIds == UNION { request[j].id : j \in { j \in 1..Len(request) : IsDeletion(request[j]) } }
        changed == [ k \in 1..Len(items) |-> upd(items[k]) ]
        kept    == SelectSeq(changed, LAMBDA it : it.id \notin goneIds)
        fresh   == SelectSeq(request, LAMBDA r : r.id = Null)
        added   == [ k \in 1..Len(fresh) |->
                       [ id |-> nextId + k - 1, price |-> fresh[k].price,
                         quantity |-> fresh[k].quantity ] ]
    IN  kept \o added

\* the provider's item list of a subscription created for a seat count
ProviderItemsFor(seats) ==
    LET its == getStripeSubscriptionItems(seats)
    IN  [ k \in 1..Len(its) |-> [ id |-> k, price |-> its[k].price, quantity |-> its[k].quantity ] ]

-----------------------------------------------------------------------------
(* app/api/webhooks/stripe/route.ts: the subscription mirrored in the database *)

\* the organization has no subscriptions row
NoSubscription ==
    [ present |-> FALSE, quantity |-> 0, status |-> "NONE", cancelAtPeriodEnd |-> FALSE,
      canceledAt |-> Null, stripeSubscriptionId |-> "none" ]

\* the Stripe.Subscription object of the provider's subscription of the organization
SubscriptionObject(s) ==
    [ id |-> "sub_1", organizationId |-> "orgA", totalSeats |-> s.totalSeats,
      status |-> s.status, cancel_at_period_end |-> s.cancel_at_period_end ]

StripeStatuses ==
    { "incomplete", "incomplete_expired", "trialing", "active", "past_due", "canceled",
      "unpaid", "paused" }

\* statusMap[stripeStatus] || SubscriptionStatus.INCOMPLETE
mapStripeStatus(stripeStatus) ==
    CASE stripeStatus = "incomplete"         -> "INCOMPLETE"
      [] stripeStatus = "incomplete_expired" -> "INCOMPLETE_EXPIRED"
      [] stripeStatus = "trialing"           -> "TRIALING"
      [] stripeStatus = "active"             -> "ACTIVE"
      [] stripeStatus = "past_due"           -> "PAST_DUE"
      [] stripeStatus = "canceled"           -> "CANCELED"
      [] stripeStatus = "unpaid"             -> "UNPAID"
      [] stripeStatus = "paused"             -> "PAST_DUE"
      [] OTHER                               -> "INCOMPLETE"

\* upsertSubscription: the row written from subscriptionData over the existing
\* row or over the defaults of a new row (canceledAt is not in subscriptionData),
\* and maxMembers
upsertSubscription(existing, subscription) ==
    LET totalSeats == ParseTotalSeats(subscription.totalSeats)
    IN  [ subscription |->
              [ present              |-> TRUE,
                quantity             |-> totalSeats,
                status               |-> mapStripeStatus(subscription.status),
                cancelAtPeriodEnd    |-> subscription.cancel_at_period_end,
                canceledAt           |-> existing.canceledAt,
                stripeSubscriptionId |-> subscription.id ],
          maxMembers |-> totalSeats ]

\* the provider's subscription of an organization billed for a seat count, and
\* the row the webhook of its checkout stored
ProviderSubscriptionFor(seats) ==
    [ items      |-> ProviderItemsFor(seats),
      totalSeats |-> NumberToString(seats),
      nextId     |-> Len(ProviderItemsFor(seats)) + 1,
      nextEvent  |-> 1,
      status     |-> "active",
      cancel_at_period_end |-> FALSE ]

NoProviderSubscription ==
    [ items |-> << >>, totalSeats |-> << >>, nextId |-> 1, nextEvent |-> 1,
      status |-> "none", cancel_at_period_end |-> FALSE ]

StoredSubscriptionFor(seats) ==
    upsertSubscription(NoSubscription,
                       SubscriptionObject(ProviderSubscriptionFor(seats))).subscription

-----------------------------------------------------------------------------
(* The organization, its callers and the state a server action keeps       *)

\* users of the organization with a known id; the first two call the actions
Users == { "u1", "u2", "u3" }
Callers == { "u1", "u2" }

\* a user of another organization
Outsider == "x1"

\* users.organization_id: the named users belong to one organization and the
\* outsider to another; no action writes the column
OrgOf(u) == IF u = Outsider THEN "orgB" ELSE "orgA"

\* the role on the users row with this id; "NONE" when there is no such row
RoleOf(u) ==
    IF u \in Users THEN userRole[u]
    ELSE IF u = Outsider THEN outsiderRole
    ELSE "NONE"

\* faulty variant of the organization check: nothing is compared
SameOrganizationAlways(theirs, mine) == TRUE

\* the organization check of the server actions, written in the source as
\* target.organizationId !== dbUser.organizationId -> error
SameOrganization(theirs, mine) == theirs = mine

\* A message text: `body` characters that begin and end with a character that
\* is not white space, after `lead` and before `trail` white-space characters
\* (body = 0: white space only, or the empty string)
Content(lead, body, trail) == [ lead |-> lead, body |-> body, trail |-> trail ]

\* content.length
Length(content) == content.lead + content.body + content.trail

\* content.trim()
Trim(content) == Content(0, content.body, 0)

\* the messages table: the row with id k is messages[k]; NoMessage stands where
\* the row was deleted
Message(discussionId, authorId, content, parentMessageId) ==
    [ discussionId |-> discussionId, authorId |-> authorId, content |-> content,
      isEdited |-> FALSE, isDeleted |-> FALSE, parentMessageId |-> parentMessageId ]

NoMessage == Message("none", "none", Content(0, 0, 0), Null)

\* prisma.message.findUnique({ where: { id } }): the row, or null
FindMessage(id) ==
    IF id \in 1..Len(messages) /\ messages[id] # NoMessage THEN Some(messages[id])
    ELSE Null

\* prisma.discussion.findUnique({ where: { id } }): the row, or null
FindDiscussion(id) ==
    IF id \in DOMAIN discussions THEN Some(discussions[id]) ELSE Null

\* the only member of a set of one: the row a findUnique found
The(found) == CHOOSE row \in found : TRUE

\* The messages table after the users row u is deleted: the messages of the
\* author go with it (ON DELETE CASCADE) and replies to them lose their parent
\* (ON DELETE SET NULL)
MessagesWithoutAuthor(u) ==
    LET gone == { k \in 1..Len(messages) : messages[k].authorId = u }
    IN  [ k \in 1..Len(messages) |->
            IF k \in gone THEN NoMessage
            ELSE IF messages[k].parentMessageId \cap gone # {}
                 THEN [ messages[k] EXCEPT !.parentMessageId = Null ]
                 ELSE messages[k] ]

\* prisma.user.count({ where: { organizationId } })
UserCount == Cardinality({ u \in Users : userRole[u] # "NONE" }) + others

\* a caller that runs no server action
IdleProc ==
    [ pc |-> "idle", op |-> "none", email |-> "none", target |-> "none",
      snapSub |-> FALSE, snapMax |-> 0, currentUserCount |-> 0, newQuantity |-> 0,
      current |-> << >>, request |-> << >>, overlap |-> FALSE, result |-> "none",
      seats |-> 0, discussion |-> "none", content |-> Content(0, 0, 0),
      parent |-> Null, message |-> 0, flag |-> FALSE, newRole |-> "NONE",
      read |-> Null, data |-> Null ]

Active(c) == proc[c].pc \notin { "idle", "done" }

\* return { success: false, error }
Fail(c, error) == [ proc[c] EXCEPT !.pc = "done", !.result = error ]

\* return { success: true }
Succeed(c) == [ proc[c] EXCEPT !.pc = "done", !.result = "success" ]

\* A caller that runs no action invokes addUserToOrganization(email, ...), with a
\* new email or the email of user u3: getCurrentUser()
StartAdd(c) ==
    /\ proc[c].pc \in { "idle", "done" }
    /\ opsLeft > 0
    /\ opsLeft' = opsLeft - 1
    /\ \E authenticated \in BOOLEAN, email \in { "new", "u3" } :
          LET racing == \E d \in Callers \ {c} : Active(d)
              mine == [ IdleProc EXCEPT !.op = "add", !.email = email, !.overlap = racing ]
          IN  proc' = [ d \in Callers |->
                          IF d = c
                          THEN IF authenticated
                               THEN [ mine EXCEPT !.pc = "dbUser" ]
                               ELSE [ mine EXCEPT !.pc = "done", !.result = "Unauthorized" ]
                          ELSE IF Active(d) THEN [ proc[d] EXCEPT !.overlap = TRUE ]
                               ELSE proc[d] ]
    /\ UNCHANGED << env, clientVars, deliveryVars, pricingVars, hookVars, boardVars, userRole, others, maxMembers, dbSub, stripe, events >>

\* A caller that runs no action invokes removeUserFromOrganization(userId), with
\* the id of a named user, of the user of another organization when one is
\* looked at, or an id no user has: getCurrentUser()
StartRemove(c) ==
    /\ proc[c].pc \in { "idle", "done" }
    /\ opsLeft > 0
    /\ opsLeft' = opsLeft - 1
    /\ \E authenticated \in BOOLEAN,
          target \in Users \cup { "ghost" }
                          \cup IF outsiderRole # "NONE" THEN { Outsider } ELSE {} :
          LET racing == \E d \in Callers \ {c} : Active(d)
              mine == [ IdleProc EXCEPT !.op = "remove", !.target = target, !.overlap = racing ]
          IN  proc' = [ d \in Callers |->
                          IF d = c
                          THEN IF authenticated
                               THEN [ mine EXCEPT !.pc = "dbUser" ]
                               ELSE [ mine EXCEPT !.pc = "done", !.result = "Unauthorized" ]
                          ELSE IF Active(d) THEN [ proc[d] EXCEPT !.overlap = TRUE ]
                               ELSE proc[d] ]
    /\ UNCHANGED << env, clientVars, deliveryVars, pricingVars, hookVars, boardVars, userRole, others, maxMembers, dbSub, stripe, events >>

\* prisma.user.findUnique({ id: currentUser.id, include organization, subscription })
\* and the checks on it that follow without a further await
LoadDbUser(c) ==
    /\ proc[c].pc = "dbUser"
    /\ proc' = [ proc EXCEPT ![c] =
          IF userRole[c] = "NONE" THEN Fail(c, "User not found")
          ELSE IF userRole[c] # "OWNER" THEN Fail(c, "Only owners")
          ELSE IF proc[c].op = "remove" /\ proc[c].target = c
               THEN Fail(c, "Cannot remove yourself")
          ELSE [ proc[c] EXCEPT !.snapSub = dbSub.present, !.snapMax = maxMembers,
                                !.pc = IF proc[c].op = "add" THEN "findEmail"
                                       ELSE "findTarget" ] ]
    /\ UNCHANGED << env, clientVars, deliveryVars, pricingVars, hookVars, boardVars, userRole, others, maxMembers, dbSub, stripe,
                    events, opsLeft >>

\* add: prisma.user.findFirst({ email, organizationId })
AddFindExisting(c) ==
    /\ proc[c].pc = "findEmail"
    /\ proc' = [ proc EXCEPT ![c] =
          IF proc[c].email \in Users /\ userRole[proc[c].email] # "NONE"
          THEN Fail(c, "User already exists in organization")
          ELSE [ proc[c] EXCEPT !.pc = "count" ] ]
    /\ UNCHANGED << env, clientVars, deliveryVars, pricingVars, hookVars, boardVars, userRole, others, maxMembers, dbSub, stripe,
                    events, opsLeft >>

\* add: prisma.user.count and the check against organization.maxMembers
AddCount(c) ==
    /\ proc[c].pc = "count"
    /\ proc' = [ proc EXCEPT ![c] =
          IF proc[c].snapMax # 0 /\ UserCount >= proc[c].snapMax
          THEN [ Fail(c, "User limit reached") EXCEPT !.currentUserCount = UserCount ]
          ELSE [ proc[c] EXCEPT !.currentUserCount = UserCount, !.pc = "create" ] ]
    /\ UNCHANGED << env, clientVars, deliveryVars, pricingVars, hookVars, boardVars, userRole, others, maxMembers, dbSub, stripe,
                    events, opsLeft >>

\* add: prisma.user.create; newQuantity = currentUserCount + 1
AddCreate(c) ==
    /\ proc[c].pc = "create"
    /\ others' = others + 1
    /\ proc' = [ proc EXCEPT ![c] =
          IF proc[c].snapSub
          THEN [ proc[c] EXCEPT !.newQuantity = proc[c].currentUserCount + 1,
                                !.pc = "retrieve" ]
          ELSE Succeed(c) ]
    /\ UNCHANGED << env, clientVars, deliveryVars, pricingVars, hookVars, boardVars, userRole, maxMembers, dbSub, stripe, events, opsLeft >>

\* remove: prisma.user.findUnique({ id: userId }) and the organization check
RemoveFindTarget(c) ==
    /\ proc[c].pc = "findTarget"
    /\ proc' = [ proc EXCEPT ![c] =
          IF RoleOf(proc[c].target) = "NONE"
          THEN Fail(c, "User not found")
          ELSE IF ~ SameOrganization(OrgOf(proc[c].target), OrgOf(c))
               THEN Fail(c, "User not in your organization")
          ELSE [ proc[c] EXCEPT !.pc = "delete" ] ]
    /\ UNCHANGED << env, clientVars, deliveryVars, pricingVars, hookVars, boardVars, userRole, others, maxMembers, dbSub, stripe,
                    events, opsLeft >>

\* remove: prisma.user.delete, which throws when the row is gone
RemoveDelete(c) ==
    /\ proc[c].pc = "delete"
    /\ IF RoleOf(proc[c].target) = "NONE"
       THEN /\ proc' = [ proc EXCEPT ![c] = Fail(c, "Failed to remove user") ]
            /\ UNCHANGED << userRole, outsiderRole, messages >>
       ELSE /\ IF proc[c].target = Outsider
               THEN outsiderRole' = "NONE" /\ UNCHANGED userRole
               ELSE /\ userRole' = [ userRole EXCEPT ![proc[c].target] = "NONE" ]
                    /\ UNCHANGED outsiderRole
            /\ messages' = MessagesWithoutAuthor(proc[c].target)
            /\ proc' = [ proc EXCEPT ![c] =
                  IF proc[c].snapSub THEN [ proc[c] EXCEPT !.pc = "recount" ]
                  ELSE Succeed(c) ]
    /\ UNCHANGED << env, clientVars, deliveryVars, pricingVars, hookVars, discussions, others, maxMembers, dbSub, stripe,
                    events, opsLeft >>

\* remove: newQuantity = prisma.user.count
RemoveCount(c) ==
    /\ proc[c].pc = "recount"
    /\ proc' = [ proc EXCEPT ![c] =
          [ proc[c] EXCEPT !.newQuantity = UserCount, !.pc = "retrieve" ] ]
    /\ UNCHANGED << env, clientVars, deliveryVars, pricingVars, hookVars, boardVars, userRole, others, maxMembers, dbSub, stripe,
                    events, opsLeft >>

\* stripe.subscriptions.retrieve(stripeSubscriptionId); the call may throw
RetrieveSubscription(c) ==
    /\ proc[c].pc = "retrieve"
    /\ \E thrown \in BOOLEAN :
          proc' = [ proc EXCEPT ![c] =
              IF thrown THEN Fail(c, "Failed")
              ELSE [ proc[c] EXCEPT !.current = stripe.items, !.pc = "update" ] ]
    /\ UNCHANGED << env, clientVars, deliveryVars, pricingVars, hookVars, boardVars, userRole, others, maxMembers, dbSub, stripe,
                    events, opsLeft >>

\* the parameters of stripe.subscriptions.update built from newQuantity
UpdateParams(current, newQuantity) ==
    [ items    |-> ReconcileLineItems(current, getStripeSubscriptionItems(newQuantity)),
      metadata |-> [ totalSeats |-> NumberToString(newQuantity) ] ]

\* stripe.subscriptions.update(id, { items, metadata, proration_behavior }): the
\* provider applies the request and announces the subscription, or the call throws
UpdateSubscription(c) ==
    /\ proc[c].pc = "update"
    /\ LET params == UpdateParams(proc[c].current, proc[c].newQuantity)
           sent == [ proc[c] EXCEPT !.request = params.items ]
       IN  \E thrown \in BOOLEAN :
              IF thrown \/ ~ RequestAccepted(stripe.items, params.items)
              THEN /\ proc' = [ proc EXCEPT ![c] =
                                  [ sent EXCEPT !.pc = "done", !.result = "Failed" ] ]
                   /\ UNCHANGED << stripe, events >>
              ELSE /\ stripe' =
                        [ stripe EXCEPT
                            !.items      = ApplyRequest(stripe.items, params.items, stripe.nextId),
                            !.totalSeats = params.metadata.totalSeats,
                            !.nextId     = stripe.nextId
                                             + Cardinality({ j \in 1..Len(params.items) :
                                                               params.items[j].id = Null }),
                            !.nextEvent  = stripe.nextEvent + 1 ]
                   /\ events' = events \cup
                        { [ id |-> stripe.nextEvent,
                            subscription |-> SubscriptionObject(stripe') ] }
                   /\ proc' = [ proc EXCEPT ![c] = [ sent EXCEPT !.pc = "dbUpdate" ] ]
    /\ UNCHANGED << env, clientVars, deliveryVars, pricingVars, hookVars, boardVars, userRole, others, maxMembers, dbSub, opsLeft >>

\* prisma.subscription.update({ data: { quantity: newQuantity } }); return success
UpdateStoredQuantity(c) ==
    /\ proc[c].pc = "dbUpdate"
    /\ dbSub' = [ dbSub EXCEPT !.quantity = proc[c].newQuantity ]
    /\ proc' = [ proc EXCEPT ![c] = Succeed(c) ]
    /\ UNCHANGED << env, clientVars, deliveryVars, pricingVars, hookVars, boardVars, userRole, others, maxMembers, stripe, events, opsLeft >>

\* POST /api/webhooks/stripe with customer.subscription.updated: upsertSubscription
DeliverSubscriptionUpdated ==
    \E e \in events :
        LET written == upsertSubscription(dbSub, e.subscription)
        IN  /\ dbSub' = written.subscription
            /\ maxMembers' = written.maxMembers
            /\ events' = events \ { e }
            /\ UNCHANGED << env, clientVars, deliveryVars, pricingVars, hookVars, boardVars, userRole, others,
                            stripe, proc, opsLeft >>

-----------------------------------------------------------------------------
(* The subscription server actions: createCheckoutSession,                 *)
(* createPortalSession, cancelSubscription, reactivateSubscription         *)

\* the callers' records after caller c invoked a server action: getCurrentUser()
\* gives the user or null; `mine` holds the action and its arguments
Invoked(c, mine, authenticated) ==
    [ d \in Callers |->
        IF d = c
        THEN IF authenticated
             THEN [ mine EXCEPT !.pc = "billingUser",
                                !.overlap = \E o \in Callers \ {c} : Active(o) ]
             ELSE [ mine EXCEPT !.pc = "done", !.result = "Unauthorized" ]
        ELSE IF Active(d) THEN [ proc[d] EXCEPT !.overlap = TRUE ]
             ELSE proc[d] ]

\* createCheckoutSession(seats), for no seat or for PurchasedSeats seats
StartCheckout(c) ==
    /\ proc[c].pc \in { "idle", "done" }
    /\ opsLeft > 0
    /\ opsLeft' = opsLeft - 1
    /\ \E authenticated \in BOOLEAN, seats \in { 0, PurchasedSeats } :
          proc' = Invoked(c, [ IdleProc EXCEPT !.op = "checkout", !.seats = seats ],
                          authenticated)
    /\ UNCHANGED << env, clientVars, deliveryVars, pricingVars, hookVars, boardVars, userRole, others, maxMembers,
                    dbSub, stripe, events >>

\* createPortalSession()
StartPortal(c) ==
    /\ proc[c].pc \in { "idle", "done" }
    /\ opsLeft > 0
    /\ opsLeft' = opsLeft - 1
    /\ \E authenticated \in BOOLEAN :
          proc' = Invoked(c, [ IdleProc EXCEPT !.op = "portal" ], authenticated)
    /\ UNCHANGED << env, clientVars, deliveryVars, pricingVars, hookVars, boardVars, userRole, others, maxMembers,
                    dbSub, stripe, events >>

\* cancelSubscription()
StartCancel(c) ==
    /\ proc[c].pc \in { "idle", "done" }
    /\ opsLeft > 0
    /\ opsLeft' = opsLeft - 1
    /\ \E authenticated \in BOOLEAN :
          proc' = Invoked(c, [ IdleProc EXCEPT !.op = "cancel" ], authenticated)
    /\ UNCHANGED << env, clientVars, deliveryVars, pricingVars, hookVars, boardVars, userRole, others, maxMembers,
                    dbSub, stripe, events >>

\* reactivateSubscription()
StartReactivate(c) ==
    /\ proc[c].pc \in { "idle", "done" }
    /\ opsLeft > 0
    /\ opsLeft' = opsLeft - 1
    /\ \E authenticated \in BOOLEAN :
          proc' = Invoked(c, [ IdleProc EXCEPT !.op = "reactivate" ], authenticated)
    /\ UNCHANGED << env, clientVars, deliveryVars, pricingVars, hookVars, boardVars, userRole, others, maxMembers,
                    dbSub, stripe, events >>

\* faulty variant: admins pass the check of the role as well
IsOwnerOrAdmin(role) == role \in { "OWNER", "ADMIN" }

\* dbUser.role !== "OWNER" negated
IsOwner(role) == role = "OWNER"

\* prisma.user.findUnique({ id, include organization, subscription }) and the
\* checks of the four subscription actions that follow without a further await
LoadBillingUser(c) ==
    /\ proc[c].pc = "billingUser"
    /\ proc' = [ proc EXCEPT ![c] =
          IF userRole[c] = "NONE" THEN Fail(c, "User not found")
          ELSE IF ~ IsOwner(userRole[c])
               THEN Fail(c, "Only owners can manage subscriptions")
          ELSE IF proc[c].op = "checkout"
               THEN IF dbSub.present
                    THEN Fail(c, "Organization already has an active subscription")
                    ELSE IF proc[c].seats < 1 THEN Fail(c, "Must have at least 1 seat")
                    ELSE [ proc[c] EXCEPT !.pc = "checkout" ]
          ELSE IF ~ dbSub.present THEN Fail(c, "No active subscription found")
          ELSE IF proc[c].op = "portal" THEN [ proc[c] EXCEPT !.pc = "portal" ]
          ELSE IF proc[c].op = "cancel"
               THEN [ proc[c] EXCEPT !.snapSub = TRUE, !.pc = "cancelAtProvider" ]
          ELSE IF ~ dbSub.cancelAtPeriodEnd
               THEN Fail(c, "Subscription is not set to cancel")
               ELSE [ proc[c] EXCEPT !.snapSub = TRUE, !.pc = "cancelAtProvider" ] ]
    /\ UNCHANGED << env, clientVars, deliveryVars, pricingVars, hookVars, boardVars, userRole, others, maxMembers,
                    dbSub, stripe, events, opsLeft >>

\* stripe.checkout.sessions.create({ line_items, metadata: { totalSeats } }): the
\* provider refuses a line item without a price, or the call throws otherwise
CreateCheckout(c) ==
    /\ proc[c].pc = "checkout"
    /\ LET subscriptionItems == getStripeSubscriptionItems(proc[c].seats)
           refused == \E i \in 1..Len(subscriptionItems) :
                          subscriptionItems[i].price = Undefined
       IN  \E thrown \in BOOLEAN :
              IF thrown \/ refused
              THEN /\ proc' = [ proc EXCEPT ![c] = Fail(c, "Failed to create checkout session") ]
                   /\ UNCHANGED sessions
              ELSE /\ sessions' =
                        [ sessions EXCEPT !.checkout =
                            Append(@, [ line_items |-> subscriptionItems,
                                        totalSeats |-> NumberToString(proc[c].seats) ]) ]
                   /\ proc' = [ proc EXCEPT ![c] = Succeed(c) ]
    /\ UNCHANGED << env, clientVars, deliveryVars, pricingVars, response, boardVars, userRole, others, maxMembers,
                    dbSub, stripe, events, opsLeft >>

\* stripe.billingPortal.sessions.create({ customer, return_url }); the call may throw
CreatePortal(c) ==
    /\ proc[c].pc = "portal"
    /\ \E thrown \in BOOLEAN :
          IF thrown
          THEN /\ proc' = [ proc EXCEPT ![c] = Fail(c, "Failed to create portal session") ]
               /\ UNCHANGED sessions
          ELSE /\ sessions' = [ sessions EXCEPT !.portal = @ + 1 ]
               /\ proc' = [ proc EXCEPT ![c] = Succeed(c) ]
    /\ UNCHANGED << env, clientVars, deliveryVars, pricingVars, response, boardVars, userRole, others, maxMembers,
                    dbSub, stripe, events, opsLeft >>

\* stripe.subscriptions.update(id, { cancel_at_period_end }), true in
\* cancelSubscription and false in reactivateSubscription: the provider changes
\* the subscription and announces it, or the call throws
SetCancelAtProvider(c) ==
    /\ proc[c].pc = "cancelAtProvider"
    /\ \E thrown \in BOOLEAN :
          IF thrown
          THEN /\ proc' = [ proc EXCEPT ![c] = Fail(c, "Failed") ]
               /\ UNCHANGED << stripe, events >>
          ELSE /\ stripe' = [ stripe EXCEPT !.cancel_at_period_end = (proc[c].op = "cancel"),
                                            !.nextEvent = @ + 1 ]
               /\ events' = events \cup
                     { [ id |-> stripe.nextEvent, subscription |-> SubscriptionObject(stripe') ] }
               /\ proc' = [ proc EXCEPT ![c] = [ proc[c] EXCEPT !.pc = "cancelStored" ] ]
    /\ UNCHANGED << env, clientVars, deliveryVars, pricingVars, hookVars, boardVars, userRole, others, maxMembers,
                    dbSub, opsLeft >>

\* faulty variant: reactivateSubscription leaves the date of the cancellation
CancellationDataKeepsDate(op) ==
    [ cancelAtPeriodEnd |-> op = "cancel", canceledAt |-> Some("now") ]

\* the data of prisma.subscription.update: { cancelAtPeriodEnd: true, canceledAt:
\* new Date() } in cancelSubscription, { false, null } in reactivateSubscription
CancellationData(op) ==
    [ cancelAtPeriodEnd |-> op = "cancel",
      canceledAt        |-> IF op = "cancel" THEN Some("now") ELSE Null ]

\* prisma.subscription.update({ data: { cancelAtPeriodEnd, canceledAt } }); return success
StoreCancel(c) ==
    /\ proc[c].pc = "cancelStored"
    /\ dbSub' = [ dbSub EXCEPT !.cancelAtPeriodEnd = CancellationData(proc[c].op).cancelAtPeriodEnd,
                               !.canceledAt = CancellationData(proc[c].op).canceledAt ]
    /\ proc' = [ proc EXCEPT ![c] = Succeed(c) ]
    /\ UNCHANGED << env, clientVars, deliveryVars, pricingVars, hookVars, boardVars, userRole, others, maxMembers,
                    stripe, events, opsLeft >>

-----------------------------------------------------------------------------
(* app/api/webhooks/stripe/route.ts: POST and the handlers of the events   *)

STRIPE_WEBHOOK_EVENTS ==
    [ CHECKOUT_COMPLETED     |-> "checkout.session.completed",
      SUBSCRIPTION_CREATED   |-> "customer.subscription.created",
      SUBSCRIPTION_UPDATED   |-> "customer.subscription.updated",
      SUBSCRIPTION_DELETED   |-> "customer.subscription.deleted",
      INVOICE_PAID           |-> "invoice.paid",
      INVOICE_PAYMENT_FAILED |-> "invoice.payment_failed" ]

\* A request to the endpoint: the stripe-signature header ("absent": no header)
\* and the event of the body, its type and the fields of its object that a handler
\* reads.  Fields that the handler of the type does not read are left at "none".
Request(signature, type, organizationId, subscription, totalSeats, status, cancel) ==
    [ signature |-> signature, type |-> type, organizationId |-> organizationId,
      subscription |-> subscription, totalSeats |-> totalSeats, status |-> status,
      cancel_at_period_end |-> cancel ]

Signatures == { "absent", "invalid", "valid" }

Requests ==
    UNION { 
        { Request(g, STRIPE_WEBHOOK_EVENTS.CHECKOUT_COMPLETED, o, b, << >>, "none", FALSE) :
            o \in { "orgA", "none" }, b \in { "sub_1", "sub_2", "none" } }
        \cup
        { Request(g, STRIPE_WEBHOOK_EVENTS.SUBSCRIPTION_CREATED, o, b,
                  NumberToString(PurchasedSeats), "active", FALSE) :
            o \in { "orgA", "none" }, b \in { "sub_1", "sub_2" } }
        \cup
        { Request(g, STRIPE_WEBHOOK_EVENTS.SUBSCRIPTION_UPDATED, o, "sub_1", n, st, ca) :
            o \in { "orgA", "none" },
            n \in { << >>, NumberToString(60) }, st \in { "active", "paused" },
            ca \in BOOLEAN }
        \cup
        { Request(g, STRIPE_WEBHOOK_EVENTS.SUBSCRIPTION_DELETED, "orgA", b, << >>, "canceled", FALSE) :
            b \in { "sub_1", "sub_2" } }
        \cup
        { Request(g, t, "none", b, << >>, "none", FALSE) :
            t \in { STRIPE_WEBHOOK_EVENTS.INVOICE_PAID,
                    STRIPE_WEBHOOK_EVENTS.INVOICE_PAYMENT_FAILED },
            b \in { "sub_1", "sub_2", "none" } }
        \cup
        { Request(g, "customer.created", "none", "none", << >>, "none", FALSE) }
      : g \in Signatures }

\* faulty variant: the event is built from the body whatever the signature
constructEventUnverified(request) == TRUE

\* stripe.webhooks.constructEvent(body, signature, secret) returns the event
\* (TRUE) when the signature is that of the body under the secret, and throws
constructEvent(request) == request.signature = "valid"

\* what a handler leaves: the subscriptions row, maxMembers, and whether it threw
Handled(row, max, threw) == [ dbSub |-> row, maxMembers |-> max, threw |-> threw ]

\* upsertSubscription as a handler step; failure "first": the first query throws,
\* "last": prisma.organization.update throws after the row was written
Upsert(subscription, failure) ==
    LET written == upsertSubscription(dbSub, subscription)
    IN  CASE failure = "first" -> Handled(dbSub, maxMembers, TRUE)
          [] failure = "last"  -> Handled(written.subscription, maxMembers, TRUE)
          [] OTHER             -> Handled(written.subscription, written.maxMembers, FALSE)

\* the Stripe.Subscription object of a customer.subscription.* event
EventSubscription(request) ==
    [ id |-> request.subscription, organizationId |-> request.organizationId,
      totalSeats |-> request.totalSeats, status |-> request.status,
      cancel_at_period_end |-> request.cancel_at_period_end ]

handleCheckoutCompleted(request, failure) ==
    IF request.organizationId = "none" \/ request.subscription = "none"
    THEN Handled(dbSub, maxMembers, FALSE)
    ELSE IF request.subscription # "sub_1" \/ stripe.status = "none"
         THEN Handled(dbSub, maxMembers, TRUE)
         ELSE Upsert(SubscriptionObject(stripe), failure)

handleSubscriptionCreated(request, failure) ==
    IF request.organizationId = "none"
    THEN Handled(dbSub, maxMembers, FALSE)
    ELSE Upsert(EventSubscription(request), failure)

handleSubscriptionUpdated(request, failure) ==
    IF request.organizationId = "none"
    THEN Handled(dbSub, maxMembers, FALSE)
    ELSE Upsert(EventSubscription(request), failure)

\* prisma.subscription.findUnique({ where: { stripeSubscriptionId } })
FoundSubscription(id) == dbSub.present /\ dbSub.stripeSubscriptionId = id

handleSubscriptionDeleted(request, failure) ==
    IF failure = "first" THEN Handled(dbSub, maxMembers, TRUE)
    ELSE IF ~ FoundSubscription(request.subscription) THEN Handled(dbSub, maxMembers, FALSE)
    ELSE Handled([ dbSub EXCEPT !.status = "CANCELED", !.canceledAt = Some("now") ],
                 maxMembers, FALSE)

handleInvoicePaid(request, failure) ==
    IF request.subscription = "none" THEN Handled(dbSub, maxMembers, FALSE)
    ELSE IF failure = "first" THEN Handled(dbSub, maxMembers, TRUE)
    ELSE IF ~ FoundSubscription(request.subscription) THEN Handled(dbSub, maxMembers, FALSE)
    ELSE IF dbSub.status = "PAST_DUE"
         THEN Handled([ dbSub EXCEPT !.status = "ACTIVE" ], maxMembers, FALSE)
         ELSE Handled(dbSub, maxMembers, FALSE)

handleInvoicePaymentFailed(request, failure) ==
    IF request.subscription = "none" THEN Handled(dbSub, maxMembers, FALSE)
    ELSE IF failure = "first" THEN Handled(dbSub, maxMembers, TRUE)
    ELSE IF ~ FoundSubscription(request.subscription) THEN Handled(dbSub, maxMembers, FALSE)
    ELSE Handled([ dbSub EXCEPT !.status = "PAST_DUE" ], maxMembers, FALSE)

\* the handler the switch over event.type runs, "none" in the default branch
HandlerOf(type) ==
    CASE type = STRIPE_WEBHOOK_EVENTS.CHECKOUT_COMPLETED     -> "handleCheckoutCompleted"
      [] type = STRIPE_WEBHOOK_EVENTS.SUBSCRIPTION_CREATED   -> "handleSubscriptionCreated"
      [] type = STRIPE_WEBHOOK_EVENTS.SUBSCRIPTION_UPDATED   -> "handleSubscriptionUpdated"
      [] type = STRIPE_WEBHOOK_EVENTS.SUBSCRIPTION_DELETED   -> "handleSubscriptionDeleted"
      [] type = STRIPE_WEBHOOK_EVENTS.INVOICE_PAID           -> "handleInvoicePaid"
      [] type = STRIPE_WEBHOOK_EVENTS.INVOICE_PAYMENT_FAILED -> "handleInvoicePaymentFailed"
      [] OTHER                                               -> "none"

RunHandler(request, failure) ==
    CASE HandlerOf(request.type) = "handleCheckoutCompleted" ->
            handleCheckoutCompleted(request, failure)
      [] HandlerOf(request.type) = "handleSubscriptionCreated" ->
            handleSubscriptionCreated(request, failure)
      [] HandlerOf(request.type) = "handleSubscriptionUpdated" ->
            handleSubscriptionUpdated(request, failure)
      [] HandlerOf(request.type) = "handleSubscriptionDeleted" ->
            handleSubscriptionDeleted(request, failure)
      [] HandlerOf(request.type) = "handleInvoicePaid" ->
            handleInvoicePaid(request, failure)
      [] HandlerOf(request.type) = "handleInvoicePaymentFailed" ->
            handleInvoicePaymentFailed(request, failure)
      [] OTHER -> Handled(dbSub, maxMembers, FALSE)

\* NextResponse.json(..., { status }) to a request, with the handler that ran
Answered(request, status, handler) ==
    [ signature |-> request.signature, type |-> request.type, status |-> status,
      handler |-> handler ]

\* POST(request): the signature header, constructEvent, the switch over the type
POST ==
    \E request \in Requests, failure \in { "none", "first", "last" } :
        /\ IF request.signature = "absent" \/ ~ constructEvent(request)
           THEN /\ response' = Answered(request, 400, "none")
                /\ UNCHANGED << dbSub, maxMembers >>
           ELSE LET left == RunHandler(request, failure)
                IN  /\ response' = Answered(request, IF left.threw THEN 500 ELSE 200,
                                             HandlerOf(request.type))
                    /\ dbSub' = left.dbSub
                    /\ maxMembers' = left.maxMembers
        /\ UNCHANGED << env, clientVars, deliveryVars, pricingVars, boardVars, userRole, others, stripe, events,
                        proc, opsLeft, sessions >>

-----------------------------------------------------------------------------
(* The discussion board and the roles: createMessage, editMessage,         *)
(* deleteMessage, getDiscussion, toggleDiscussionLock,                     *)
(* toggleDiscussionActive, updateUserRole                                  *)

\* the discussions table: one discussion of the callers' organization and one of
\* the other organization
DiscussionIds == { "dA", "dB" }

\* a discussions row
Discussion(organizationId, isActive, isLocked) ==
    [ organizationId |-> organizationId, isActive |-> isActive, isLocked |-> isLocked ]

\* the longest content createMessage and editMessage accept
MaxMessageLength == 5000

\* Texts a caller submits: empty, white space only, a short text, the short text
\* with white space around it, texts of the longest accepted length and one
\* more, and a text that is too long only with the white space around it
ShortText == Content(0, 2, 0)

MessageTexts ==
    { Content(0, 0, 0), Content(2, 0, 0), ShortText, Content(1, 2, 1),
      Content(0, MaxMessageLength, 0), Content(0, MaxMessageLength + 1, 0),
      Content(1, MaxMessageLength - 1, 1) }

\* !content || content.trim().length === 0
IsEmptyContent(content) == Length(content) = 0 \/ Length(Trim(content)) = 0

\* content.length > 5000
IsTooLong(content) == Length(content) > MaxMessageLength

\* faulty variant: every role counts as a moderator
IsAnyRole(role) == TRUE

\* dbUser.role === "ADMIN" || dbUser.role === "OWNER"
IsAdminOrOwner(role) == role \in { "ADMIN", "OWNER" }

\* the callers' records after caller c invoked a board or role action whose
\* first database read is the step `first`: getCurrentUser() gives the user or null
Entered(c, mine, authenticated, first) ==
    [ d \in Callers |->
        IF d = c
        THEN IF authenticated
             THEN [ mine EXCEPT !.pc = first,
                                !.overlap = \E o \in Callers \ {c} : Active(o) ]
             ELSE [ mine EXCEPT !.pc = "done", !.result = "Unauthorized" ]
        ELSE IF Active(d) THEN [ proc[d] EXCEPT !.overlap = TRUE ]
             ELSE proc[d] ]

\* what the board and role actions never touch
billingState == << others, maxMembers, dbSub, stripe, events >>

\* Arguments of createMessage: a short text on either discussion or on an id no
\* discussion has, alone or in reply to message 1, 2 or an id no message has;
\* or any of the texts, alone, on the discussion of the callers' organization
CreateMessageInputs ==
    { [ discussion |-> d, content |-> ShortText, parent |-> p ] :
        d \in DiscussionIds \cup { "ghost" }, p \in { Null, Some(1), Some(2), Some(0) } }
    \cup { [ discussion |-> "dA", content |-> t, parent |-> Null ] : t \in MessageTexts }

\* createMessage(discussionId, content, parentMessageId)
StartCreateMessage(c) ==
    /\ proc[c].pc \in { "idle", "done" }
    /\ opsLeft > 0
    /\ opsLeft' = opsLeft - 1
    /\ \E authenticated \in BOOLEAN, in \in CreateMessageInputs :
          proc' = Entered(c, [ IdleProc EXCEPT !.op = "createMessage",
                                               !.discussion = in.discussion,
                                               !.content = in.content,
                                               !.parent = in.parent ],
                          authenticated, "boardUser")
    /\ UNCHANGED << env, clientVars, deliveryVars, pricingVars, hookVars, boardVars, userRole, billingState >>

\* editMessage(messageId, content), on one of the first three messages or on an
\* id no message has
StartEditMessage(c) ==
    /\ proc[c].pc \in { "idle", "done" }
    /\ opsLeft > 0
    /\ opsLeft' = opsLeft - 1
    /\ \E authenticated \in BOOLEAN, messageId \in 0..3,
          content \in { Content(2, 0, 0), Content(1, 2, 1), Content(0, MaxMessageLength + 1, 0) } :
          proc' = Entered(c, [ IdleProc EXCEPT !.op = "editMessage",
                                               !.message = messageId,
                                               !.content = content ],
                          authenticated, "message")
    /\ UNCHANGED << env, clientVars, deliveryVars, pricingVars, hookVars, boardVars, userRole, billingState >>

\* deleteMessage(messageId)
StartDeleteMessage(c) ==
    /\ proc[c].pc \in { "idle", "done" }
    /\ opsLeft > 0
    /\ opsLeft' = opsLeft - 1
    /\ \E authenticated \in BOOLEAN, messageId \in 0..3 :
          proc' = Entered(c, [ IdleProc EXCEPT !.op = "deleteMessage",
                                               !.message = messageId ],
                          authenticated, "message")
    /\ UNCHANGED << env, clientVars, deliveryVars, pricingVars, hookVars, boardVars, userRole, billingState >>

\* getDiscussion(discussionId)
StartGetDiscussion(c) ==
    /\ proc[c].pc \in { "idle", "done" }
    /\ opsLeft > 0
    /\ opsLeft' = opsLeft - 1
    /\ \E authenticated \in BOOLEAN, discussionId \in DiscussionIds \cup { "ghost" } :
          proc' = Entered(c, [ IdleProc EXCEPT !.op = "getDiscussion",
                                               !.discussion = discussionId ],
                          authenticated, "boardUser")
    /\ UNCHANGED << env, clientVars, deliveryVars, pricingVars, hookVars, boardVars, userRole, billingState >>

\* toggleDiscussionLock(discussionId, isLocked)
StartToggleDiscussionLock(c) ==
    /\ proc[c].pc \in { "idle", "done" }
    /\ opsLeft > 0
    /\ opsLeft' = opsLeft - 1
    /\ \E authenticated \in BOOLEAN, discussionId \in DiscussionIds \cup { "ghost" },
          isLocked \in BOOLEAN :
          proc' = Entered(c, [ IdleProc EXCEPT !.op = "toggleDiscussionLock",
                                               !.discussion = discussionId,
                                               !.flag = isLocked ],
                          authenticated, "boardUser")
    /\ UNCHANGED << env, clientVars, deliveryVars, pricingVars, hookVars, boardVars, userRole, billingState >>

\* toggleDiscussionActive(discussionId, isActive)
StartToggleDiscussionActive(c) ==
    /\ proc[c].pc \in { "idle", "done" }
    /\ opsLeft > 0
    /\ opsLeft' = opsLeft - 1
    /\ \E authenticated \in BOOLEAN, discussionId \in DiscussionIds \cup { "ghost" },
          isActive \in BOOLEAN :
          proc' = Entered(c, [ IdleProc EXCEPT !.op = "toggleDiscussionActive",
                                               !.discussion = discussionId,
                                               !.flag = isActive ],
                          authenticated, "boardUser")
    /\ UNCHANGED << env, clientVars, deliveryVars, pricingVars, hookVars, boardVars, userRole, billingState >>

\* updateUserRole(userId, newRole), on a named user, on the user of the other
\* organization or on an id no user has
StartUpdateUserRole(c) ==
    /\ proc[c].pc \in { "idle", "done" }
    /\ opsLeft > 0
    /\ opsLeft' = opsLeft - 1
    /\ \E authenticated \in BOOLEAN, userId \in Users \cup { Outsider, "ghost" },
          newRole \in { "OWNER", "ADMIN", "MEMBER" } :
          proc' = Entered(c, [ IdleProc EXCEPT !.op = "updateUserRole",
                                               !.target = userId,
                                               !.newRole = newRole ],
                          authenticated, "boardUser")
    /\ UNCHANGED << env, clientVars, deliveryVars, pricingVars, hookVars, boardVars, userRole, billingState >>

\* prisma.user.findUnique({ id: currentUser.id }) of createMessage, getDiscussion,
\* the two toggles and updateUserRole, and the checks on the caller that follow
LoadBoardUser(c) ==
    /\ proc[c].pc = "boardUser"
    /\ proc' = [ proc EXCEPT ![c] =
          IF RoleOf(c) = "NONE" THEN Fail(c, "User not found")
          ELSE IF /\ proc[c].op = "toggleDiscussionLock"
                  /\ ~ IsAdminOrOwner(RoleOf(c))
               THEN Fail(c, "Only admins and owners can lock discussions")
          ELSE IF /\ proc[c].op = "toggleDiscussionActive"
                  /\ ~ IsAdminOrOwner(RoleOf(c))
               THEN Fail(c, "Only admins and owners can archive discussions")
          ELSE IF proc[c].op = "updateUserRole" /\ ~ IsAdminOrOwner(RoleOf(c))
               THEN Fail(c, "Insufficient permissions")
          ELSE IF proc[c].op = "updateUserRole" /\ proc[c].target = c
               THEN Fail(c, "Cannot change your own role")
          ELSE [ proc[c] EXCEPT !.pc = IF proc[c].op = "updateUserRole"
                                       THEN "roleTarget" ELSE "discussion" ] ]
    /\ UNCHANGED << env, clientVars, deliveryVars, pricingVars, hookVars, boardVars, userRole, billingState, opsLeft >>

\* what getDiscussion returns: the discussion with its messages that are not
\* soft-deleted
DiscussionWithMessages(discussionId) ==
    [ id             |-> discussionId,
      organizationId |-> discussions[discussionId].organizationId,
      messages       |-> { k \in 1..Len(messages) :
                             /\ messages[k].discussionId = discussionId
                             /\ ~ messages[k].isDeleted } ]

\* prisma.discussion.findUnique({ id: discussionId }) and the checks that follow
\* without a further await: the organization check in all four actions, and in
\* createMessage the checks of isActive, isLocked and of the content
LoadDiscussion(c) ==
    /\ proc[c].pc = "discussion"
    /\ LET found == FindDiscussion(proc[c].discussion)
           discussion == The(found)
       IN  proc' = [ proc EXCEPT ![c] =
              IF found = Null THEN Fail(c, "Discussion not found")
              ELSE IF ~ SameOrganization(discussion.organizationId, OrgOf(c))
                   THEN Fail(c, "Access denied")
              ELSE IF proc[c].op = "getDiscussion"
                   THEN [ Succeed(c) EXCEPT
                            !.data = Some(DiscussionWithMessages(proc[c].discussion)) ]
              ELSE IF proc[c].op # "createMessage"
                   THEN [ proc[c] EXCEPT !.pc = "updateDiscussion" ]
              ELSE IF ~ discussion.isActive
                   THEN Fail(c, "Discussion is no longer active")
              ELSE IF discussion.isLocked THEN Fail(c, "Discussion is locked")
              ELSE IF IsEmptyContent(proc[c].content)
                   THEN Fail(c, "Message content cannot be empty")
              ELSE IF IsTooLong(proc[c].content) THEN Fail(c, "Message is too long")
              ELSE [ proc[c] EXCEPT !.pc = IF proc[c].parent # Null THEN "parent"
                                           ELSE "insert" ] ]
    /\ UNCHANGED << env, clientVars, deliveryVars, pricingVars, hookVars, boardVars, userRole, billingState, opsLeft >>

\* createMessage: prisma.message.findUnique({ id: parentMessageId }) and the check
\* that the parent is a message of this discussion
LoadParentMessage(c) ==
    /\ proc[c].pc = "parent"
    /\ LET parentMessage == FindMessage(The(proc[c].parent))
       IN  proc' = [ proc EXCEPT ![c] =
              IF \/ parentMessage = Null
                 \/ The(parentMessage).discussionId # proc[c].discussion
              THEN Fail(c, "Invalid parent message")
              ELSE [ proc[c] EXCEPT !.pc = "insert" ] ]
    /\ UNCHANGED << env, clientVars, deliveryVars, pricingVars, hookVars, boardVars, userRole, billingState, opsLeft >>

\* createMessage: prisma.message.create({ content: content.trim(), discussionId,
\* authorId, parentMessageId }), which throws when the author's row or the parent
\* row is gone (foreign keys)
CreateMessageRow(c) ==
    /\ proc[c].pc = "insert"
    /\ IF \/ RoleOf(c) = "NONE"
          \/ proc[c].parent # Null /\ FindMessage(The(proc[c].parent)) = Null
       THEN /\ proc' = [ proc EXCEPT ![c] = Fail(c, "Failed to create message") ]
            /\ UNCHANGED messages
       ELSE /\ messages' = Append(messages,
                                  Message(proc[c].discussion, c, Trim(proc[c].content),
                                          proc[c].parent))
            /\ proc' = [ proc EXCEPT ![c] = Succeed(c) ]
    /\ UNCHANGED << env, clientVars, deliveryVars, pricingVars, hookVars, outsiderRole, discussions, userRole,
                    billingState, opsLeft >>

\* the toggles: prisma.discussion.update({ id, data: { isLocked } }), or isActive
UpdateDiscussion(c) ==
    /\ proc[c].pc = "updateDiscussion"
    /\ discussions' =
          IF proc[c].op = "toggleDiscussionLock"
          THEN [ discussions EXCEPT ![proc[c].discussion].isLocked = proc[c].flag ]
          ELSE [ discussions EXCEPT ![proc[c].discussion].isActive = proc[c].flag ]
    /\ proc' = [ proc EXCEPT ![c] = Succeed(c) ]
    /\ UNCHANGED << env, clientVars, deliveryVars, pricingVars, hookVars, outsiderRole, messages, userRole,
                    billingState, opsLeft >>

\* editMessage, deleteMessage: prisma.message.findUnique({ id: messageId, include:
\* discussion.organizationId })
LoadMessage(c) ==
    /\ proc[c].pc = "message"
    /\ LET found == FindMessage(proc[c].message)
           message == The(found)
       IN  proc' = [ proc EXCEPT ![c] =
              IF found = Null THEN Fail(c, "Message not found")
              ELSE [ proc[c] EXCEPT
                       !.read = Some([ authorId |-> message.authorId,
                                       organizationId |->
                                           discussions[message.discussionId].organizationId ]),
                       !.pc = "messageUser" ] ]
    /\ UNCHANGED << env, clientVars, deliveryVars, pricingVars, hookVars, boardVars, userRole, billingState, opsLeft >>

\* editMessage, deleteMessage: prisma.user.findUnique({ id: currentUser.id }) and
\* the checks that follow: author and organization, then the content (edit);
\* organization, then author or admin or owner (delete)
LoadMessageUser(c) ==
    /\ proc[c].pc = "messageUser"
    /\ LET message == The(proc[c].read)
           inOrganization == SameOrganization(message.organizationId, OrgOf(c))
       IN  proc' = [ proc EXCEPT ![c] =
              IF RoleOf(c) = "NONE" THEN Fail(c, "User not found")
              ELSE IF proc[c].op = "editMessage"
                   THEN IF message.authorId # c
                        THEN Fail(c, "You can only edit your own messages")
                        ELSE IF ~ inOrganization THEN Fail(c, "Access denied")
                        ELSE IF IsEmptyContent(proc[c].content)
                             THEN Fail(c, "Message content cannot be empty")
                        ELSE IF IsTooLong(proc[c].content)
                             THEN Fail(c, "Message is too long")
                        ELSE [ proc[c] EXCEPT !.pc = "updateMessage" ]
                   ELSE IF ~ inOrganization THEN Fail(c, "Access denied")
                        ELSE IF message.authorId # c /\ ~ IsAdminOrOwner(RoleOf(c))
                             THEN Fail(c, "You don't have permission to delete this message")
                        ELSE [ proc[c] EXCEPT !.pc = "updateMessage" ] ]
    /\ UNCHANGED << env, clientVars, deliveryVars, pricingVars, hookVars, boardVars, userRole, billingState, opsLeft >>

\* prisma.message.update({ id: messageId, data }), which throws when the row is
\* gone: { content: content.trim(), isEdited: true } or { isDeleted: true }
UpdateMessage(c) ==
    /\ proc[c].pc = "updateMessage"
    /\ IF FindMessage(proc[c].message) = Null
       THEN /\ proc' = [ proc EXCEPT ![c] = Fail(c, "Failed") ]
            /\ UNCHANGED messages
       ELSE /\ messages' =
                  IF proc[c].op = "editMessage"
                  THEN [ messages EXCEPT ![proc[c].message].content = Trim(proc[c].content),
                                         ![proc[c].message].isEdited = TRUE ]
                  ELSE [ messages EXCEPT ![proc[c].message].isDeleted = TRUE ]
            /\ proc' = [ proc EXCEPT ![c] = Succeed(c) ]
    /\ UNCHANGED << env, clientVars, deliveryVars, pricingVars, hookVars, outsiderRole, discussions, userRole,
                    billingState, opsLeft >>

\* updateUserRole: prisma.user.findUnique({ id: userId }) and the organization check
LoadRoleTarget(c) ==
    /\ proc[c].pc = "roleTarget"
    /\ proc' = [ proc EXCEPT ![c] =
          IF RoleOf(proc[c].target) = "NONE" THEN Fail(c, "User not found")
          ELSE IF ~ SameOrganization(OrgOf(proc[c].target), OrgOf(c))
               THEN Fail(c, "User not in your organization")
          ELSE [ proc[c] EXCEPT !.pc = "updateRole" ] ]
    /\ UNCHANGED << env, clientVars, deliveryVars, pricingVars, hookVars, boardVars, userRole, billingState, opsLeft >>

\* updateUserRole: prisma.user.update({ id: userId, data: { role: newRole } }),
\* which throws when the row is gone
UpdateRole(c) ==
    /\ proc[c].pc = "updateRole"
    /\ IF RoleOf(proc[c].target) = "NONE"
       THEN /\ proc' = [ proc EXCEPT ![c] = Fail(c, "Failed to update user role") ]
            /\ UNCHANGED << userRole, outsiderRole >>
       ELSE /\ IF proc[c].target = Outsider
               THEN outsiderRole' = proc[c].newRole /\ UNCHANGED userRole
               ELSE /\ userRole' = [ userRole EXCEPT ![proc[c].target] = proc[c].newRole ]
                    /\ UNCHANGED outsiderRole
            /\ proc' = [ proc EXCEPT ![c] = Succeed(c) ]
    /\ UNCHANGED << env, clientVars, deliveryVars, pricingVars, hookVars, discussions, messages, billingState, opsLeft >>

-----------------------------------------------------------------------------
(* Overlapping webhook deliveries after a checkout: the subscriptions table *)
(* as rows, and upsertSubscription one await at a time                     *)

\* deliveries the provider makes at most
MaxDeliveries == 4

\* a subscriptions row
SubscriptionRow(id, organizationId, stripeSubscriptionId, quantity) ==
    [ id |-> id, organizationId |-> organizationId,
      stripeSubscriptionId |-> stripeSubscriptionId, quantity |-> quantity ]

\* prisma.subscription.findUnique({ where: { organizationId } }): the rows found
RowsOf(organizationId) == { r \in subscriptions : r.organizationId = organizationId }

\* faulty variant: the table has no unique index on organization_id
NoUniqueIndex(organizationId) == FALSE

\* CREATE UNIQUE INDEX subscriptions_organization_id_key: an insert for an
\* organization that has a row is refused
UniqueViolation(organizationId) == RowsOf(organizationId) # {}

\* the checkout sessions the customer completed
PaidSessions == { hooks[h].session : h \in 1..Len(hooks) }

\* A run of POST for an event of the subscription a checkout created:
\* handleCheckoutCompleted or handleSubscriptionCreated, about to upsert
Delivery(type, session, seats) ==
    [ type |-> type, session |-> session, organizationId |-> "orgA",
      subscription |-> session, totalSeats |-> seats, pc |-> "find", existing |-> Null ]

\* The customer pays an open checkout session: the provider creates the
\* subscription of the session, with the session's metadata, and sends
\* checkout.session.completed and customer.subscription.created
CompleteCheckout ==
    /\ Len(hooks) + 2 <= MaxDeliveries
    /\ \E k \in 1..Len(sessions.checkout) :
          /\ k \notin PaidSessions
          /\ hooks' = hooks \o
                << Delivery(STRIPE_WEBHOOK_EVENTS.CHECKOUT_COMPLETED, k,
                            sessions.checkout[k].totalSeats),
                   Delivery(STRIPE_WEBHOOK_EVENTS.SUBSCRIPTION_CREATED, k,
                            sessions.checkout[k].totalSeats) >>
    /\ UNCHANGED << env, clientVars, pricingVars, sessions, response, subscriptions, boardVars,
                    flowState >>

\* upsertSubscription: prisma.subscription.findUnique({ where: { organizationId } })
UpsertFind(h) ==
    /\ hooks[h].pc = "find"
    /\ LET found == RowsOf(hooks[h].organizationId)
       IN  hooks' = [ hooks EXCEPT ![h].existing = { r.id : r \in found },
                                   ![h].pc = IF found # {} THEN "update" ELSE "create" ]
    /\ UNCHANGED << env, clientVars, pricingVars, sessions, response, subscriptions, boardVars,
                    flowState >>

\* the subscriptions row of the callers' organization as their server actions
\* read it, after a delivery wrote it
StoredAfter(h) ==
    [ StoredSubscriptionFor(ParseTotalSeats(hooks[h].totalSeats)) EXCEPT
        !.canceledAt = dbSub.canceledAt,
        !.stripeSubscriptionId = hooks[h].subscription ]

\* upsertSubscription: prisma.subscription.create, which throws on the unique
\* index (POST then answers 500)
UpsertCreate(h) ==
    /\ hooks[h].pc = "create"
    /\ IF UniqueViolation(hooks[h].organizationId)
       THEN /\ hooks' = [ hooks EXCEPT ![h].pc = "failed" ]
            /\ UNCHANGED << subscriptions, dbSub >>
       ELSE /\ subscriptions' = subscriptions \cup
                  { SubscriptionRow(Cardinality(subscriptions) + 1, hooks[h].organizationId,
                                    hooks[h].subscription,
                                    ParseTotalSeats(hooks[h].totalSeats)) }
            /\ dbSub' = StoredAfter(h)
            /\ hooks' = [ hooks EXCEPT ![h].pc = "maxMembers" ]
    /\ UNCHANGED << env, clientVars, pricingVars, sessions, response, boardVars, userRole, others,
                    maxMembers, stripe, events, proc, opsLeft >>

\* upsertSubscription: prisma.subscription.update({ where: { id: existing.id } })
UpsertUpdate(h) ==
    /\ hooks[h].pc = "update"
    /\ subscriptions' =
          { IF r.id \in hooks[h].existing
            THEN SubscriptionRow(r.id, r.organizationId, hooks[h].subscription,
                                 ParseTotalSeats(hooks[h].totalSeats))
            ELSE r : r \in subscriptions }
    /\ dbSub' = StoredAfter(h)
    /\ hooks' = [ hooks EXCEPT ![h].pc = "maxMembers" ]
    /\ UNCHANGED << env, clientVars, pricingVars, sessions, response, boardVars, userRole, others,
                    maxMembers, stripe, events, proc, opsLeft >>

\* upsertSubscription: prisma.organization.update({ data: { maxMembers: totalSeats } })
UpsertMaxMembers(h) ==
    /\ hooks[h].pc = "maxMembers"
    /\ maxMembers' = ParseTotalSeats(hooks[h].totalSeats)
    /\ hooks' = [ hooks EXCEPT ![h].pc = "done" ]
    /\ UNCHANGED << env, clientVars, pricingVars, sessions, response, subscriptions, boardVars,
                    userRole, others, dbSub, stripe, events, proc, opsLeft >>

-----------------------------------------------------------------------------
(* Specifications                                                          *)

\* nothing was asked of the provider's session endpoints or of the webhook endpoint
QuietHook ==
    /\ sessions = [ checkout |-> << >>, portal |-> 0 ]
    /\ response = [ signature |-> "none", type |-> "none", status |-> 0, handler |-> "none" ]
    /\ subscriptions = {}
    /\ hooks = << >>

\* no page shows a discussion
QuietClient ==
    /\ messageList = << >>
    /\ channel = {}
    /\ fetches = << >>
    /\ callbacksLeft = 0

\* no discussion board is looked at
QuietBoard ==
    /\ outsiderRole = "NONE"
    /\ discussions = << >>
    /\ messages = << >>

\* no server action runs and no organization is looked at
QuietFlow ==
    /\ userRole = [ u \in Users |-> "NONE" ]
    /\ others = 0
    /\ maxMembers = 0
    /\ dbSub = NoSubscription
    /\ stripe = NoProviderSubscription
    /\ events = {}
    /\ proc = [ c \in Callers |-> IdleProc ]
    /\ opsLeft = 0
    /\ QuietHook
    /\ QuietBoard
    /\ QuietClient

\* a pricing function is about to be called on a seat count, in some deployment
InitPricing ==
    /\ env \in Environments
    /\ arg \in SeatInputs
    /\ call = "none"
    /\ ret = Returned(0)
    /\ QuietFlow

NextPricing ==
    \/ CallGetPricingTier
    \/ CallCalculateTotalCost
    \/ CallCalculateVariableCost
    \/ CallGetStripePriceIds
    \/ CallGetStripeSubscriptionItems

SpecPricing == InitPricing /\ [][NextPricing]_vars

\* deployments the flows run in: every price id set, or the Thrive one missing
ThriveMissingEnv == [ ConfiguredEnv EXCEPT !["STRIPE_PRICE_ID_THRIVE"] = Undefined ]

\* Organizations the flows start from: users in the organization, seats the
\* provider bills (0: no subscription), organization.maxMembers, the role of the
\* second caller and the deployment.  A checkout for `billed` seats set
\* maxMembers; members were added or removed since, or not.
FlowStart(users, billed, max, role2, e) ==
    [ users |-> users, billed |-> billed, max |-> max, role2 |-> role2, env |-> e ]

FlowStarts ==
    { FlowStart(10,  0,   50,  "OWNER",  ConfiguredEnv),
      FlowStart(50,  50,  50,  "OWNER",  ConfiguredEnv),
      FlowStart(50,  50,  100, "OWNER",  ConfiguredEnv),
      FlowStart(50,  100, 100, "OWNER",  ConfiguredEnv),
      FlowStart(50,  50,  100, "MEMBER", ConfiguredEnv),
      FlowStart(75,  75,  100, "OWNER",  ConfiguredEnv),
      FlowStart(75,  75,  100, "OWNER",  ThriveMissingEnv),
      FlowStart(99,  75,  100, "OWNER",  ConfiguredEnv),
      FlowStart(200, 200, 250, "OWNER",  ConfiguredEnv) }

InitFlow ==
    /\ arg = 0
    /\ call = "none"
    /\ ret = Returned(0)
    /\ \E s \in FlowStarts :
          /\ env = s.env
          /\ userRole = [ u \in Users |->
                            IF u = "u1" THEN "OWNER" ELSE IF u = "u2" THEN s.role2 ELSE "MEMBER" ]
          /\ others = s.users - Cardinality(Users)
          /\ maxMembers = s.max
          /\ dbSub = IF s.billed > 0 THEN StoredSubscriptionFor(s.billed) ELSE NoSubscription
          /\ stripe = IF s.billed > 0 THEN ProviderSubscriptionFor(s.billed)
                      ELSE NoProviderSubscription
    /\ events = {}
    /\ proc = [ c \in Callers |-> IdleProc ]
    /\ opsLeft = MaxOps
    /\ QuietHook
    /\ QuietBoard
    /\ QuietClient

NextFlow ==
    \/ \E c \in Callers : StartAdd(c)
    \/ \E c \in Callers : StartRemove(c)
    \/ \E c \in Callers : LoadDbUser(c)
    \/ \E c \in Callers : AddFindExisting(c)
    \/ \E c \in Callers : AddCount(c)
    \/ \E c \in Callers : AddCreate(c)
    \/ \E c \in Callers : RemoveFindTarget(c)
    \/ \E c \in Callers : RemoveDelete(c)
    \/ \E c \in Callers : RemoveCount(c)
    \/ \E c \in Callers : RetrieveSubscription(c)
    \/ \E c \in Callers : UpdateSubscription(c)
    \/ \E c \in Callers : UpdateStoredQuantity(c)
    \/ DeliverSubscriptionUpdated

SpecFlow == InitFlow /\ [][NextFlow]_vars

\* Growing by adding users: the organization bought PurchasedSeats seats at
\* checkout (the webhook of the checkout stored them as quantity and maxMembers)
\* and has fewer users; its owner u1 adds users one call after the other, each
\* call made once the webhooks of the calls before are delivered.
GrowStartUsers == { 49, 50, 74, 75 }

InitGrow ==
    /\ arg = 0
    /\ call = "none"
    /\ ret = Returned(0)
    /\ env = ConfiguredEnv
    /\ userRole = [ u \in Users |-> IF u = "u1" THEN "OWNER" ELSE "MEMBER" ]
    /\ \E users \in GrowStartUsers : others = users - Cardinality(Users)
    /\ maxMembers = PurchasedSeats
    /\ dbSub = StoredSubscriptionFor(PurchasedSeats)
    /\ stripe = ProviderSubscriptionFor(PurchasedSeats)
    /\ events = {}
    /\ proc = [ c \in Callers |-> IdleProc ]
    /\ opsLeft = MaxOps
    /\ QuietHook
    /\ QuietBoard
    /\ QuietClient

OwnerAddsAfterDelivery == events = {} /\ StartAdd("u1")

NextGrow ==
    \/ OwnerAddsAfterDelivery
    \/ LoadDbUser("u1")
    \/ AddFindExisting("u1")
    \/ AddCount("u1")
    \/ AddCreate("u1")
    \/ RetrieveSubscription("u1")
    \/ UpdateSubscription("u1")
    \/ UpdateStoredQuantity("u1")
    \/ DeliverSubscriptionUpdated

SpecGrow == InitGrow /\ [][NextGrow]_vars

\* Requests to the webhook endpoint of an organization of 50 users: it has no
\* subscriptions row yet while the provider holds the subscription its checkout
\* created, or it has the row, active or past due.
InitWebhook ==
    /\ arg = 0
    /\ call = "none"
    /\ ret = Returned(0)
    /\ env = ConfiguredEnv
    /\ userRole = [ u \in Users |-> IF u = "u1" THEN "OWNER" ELSE "MEMBER" ]
    /\ others = FREE_SEATS_THRESHOLD - Cardinality(Users)
    /\ stripe = ProviderSubscriptionFor(PurchasedSeats)
    /\ \/ dbSub = NoSubscription /\ maxMembers = FREE_SEATS_THRESHOLD
       \/ /\ \E st \in { "ACTIVE", "PAST_DUE" } :
                dbSub = [ StoredSubscriptionFor(PurchasedSeats) EXCEPT !.status = st ]
          /\ maxMembers = PurchasedSeats
    /\ events = {}
    /\ proc = [ c \in Callers |-> IdleProc ]
    /\ opsLeft = 0
    /\ QuietHook
    /\ QuietBoard
    /\ QuietClient

NextWebhook == POST

SpecWebhook == InitWebhook /\ [][NextWebhook]_vars

\* Who may manage users and billing: the owner u1 and a second caller who is an
\* admin or a member call the user-management and subscription actions one call
\* at a time, signed in or not; the organization has no subscription, or one for
\* PurchasedSeats seats that is or is not set to cancel.
AccessStarts ==
    { [ users |-> 10, billed |-> 0, cancel |-> FALSE ],
      [ users |-> 60, billed |-> PurchasedSeats, cancel |-> FALSE ],
      [ users |-> 60, billed |-> PurchasedSeats, cancel |-> TRUE ] }

InitAccess ==
    /\ arg = 0
    /\ call = "none"
    /\ ret = Returned(0)
    /\ env = ConfiguredEnv
    /\ \E role2 \in { "ADMIN", "MEMBER" } :
          userRole = [ u \in Users |->
                         IF u = "u1" THEN "OWNER" ELSE IF u = "u2" THEN role2 ELSE "MEMBER" ]
    /\ \E s \in AccessStarts :
          /\ others = s.users - Cardinality(Users)
          /\ maxMembers = IF s.billed > 0 THEN s.billed ELSE FREE_SEATS_THRESHOLD
          /\ dbSub = IF s.billed > 0
                     THEN [ StoredSubscriptionFor(s.billed) EXCEPT
                              !.cancelAtPeriodEnd = s.cancel,
                              !.canceledAt = IF s.cancel THEN Some("now") ELSE Null ]
                     ELSE NoSubscription
          /\ stripe = IF s.billed > 0
                      THEN [ ProviderSubscriptionFor(s.billed) EXCEPT
                               !.cancel_at_period_end = s.cancel ]
                      ELSE NoProviderSubscription
    /\ events = {}
    /\ proc = [ c \in Callers |-> IdleProc ]
    /\ opsLeft = MaxOps
    /\ QuietHook
    /\ QuietBoard
    /\ QuietClient

\* no server action is running
NoneActive == \A d \in Callers : ~ Active(d)

NextAccess ==
    \/ \E c \in Callers : NoneActive /\ StartAdd(c)
    \/ \E c \in Callers : NoneActive /\ StartRemove(c)
    \/ \E c \in Callers : NoneActive /\ StartCheckout(c)
    \/ \E c \in Callers : NoneActive /\ StartPortal(c)
    \/ \E c \in Callers : NoneActive /\ StartCancel(c)
    \/ \E c \in Callers : NoneActive /\ StartReactivate(c)
    \/ \E c \in Callers : LoadDbUser(c)
    \/ \E c \in Callers : AddFindExisting(c)
    \/ \E c \in Callers : AddCount(c)
    \/ \E c \in Callers : AddCreate(c)
    \/ \E c \in Callers : RemoveFindTarget(c)
    \/ \E c \in Callers : RemoveDelete(c)
    \/ \E c \in Callers : RemoveCount(c)
    \/ \E c \in Callers : RetrieveSubscription(c)
    \/ \E c \in Callers : UpdateSubscription(c)
    \/ \E c \in Callers : UpdateStoredQuantity(c)
    \/ \E c \in Callers : LoadBillingUser(c)
    \/ \E c \in Callers : CreateCheckout(c)
    \/ \E c \in Callers : CreatePortal(c)
    \/ \E c \in Callers : SetCancelAtProvider(c)
    \/ \E c \in Callers : StoreCancel(c)
    \/ DeliverSubscriptionUpdated

SpecAccess == InitAccess /\ [][NextAccess]_vars

\* The board of two organizations: the owner u1 and a second caller who is an
\* admin or a member, both of the organization of discussion dA, each call one
\* board, role or removal action, the calls overlapping or not.  Message 1 is
\* written by u2 and message 3 by u3 in reply to it, both in dA; message 2 is
\* written by the user of the other organization in its discussion dB.  No row
\* of a removed user is made again under the same id.
InitBoard ==
    /\ arg = 0
    /\ call = "none"
    /\ ret = Returned(0)
    /\ env = ConfiguredEnv
    /\ \E role2 \in { "ADMIN", "MEMBER" } :
          userRole = [ u \in Users |->
                         IF u = "u1" THEN "OWNER" ELSE IF u = "u2" THEN role2 ELSE "MEMBER" ]
    /\ others = 0
    /\ maxMembers = FREE_SEATS_THRESHOLD
    /\ dbSub = NoSubscription
    /\ stripe = NoProviderSubscription
    /\ events = {}
    /\ proc = [ c \in Callers |-> IdleProc ]
    /\ opsLeft = MaxOps
    /\ QuietHook
    /\ outsiderRole = "MEMBER"
    /\ discussions = [ d \in DiscussionIds |->
                         Discussion(IF d = "dA" THEN "orgA" ELSE "orgB", TRUE, FALSE) ]
    /\ messages = << Message("dA", "u2", ShortText, Null),
                     Message("dB", Outsider, ShortText, Null),
                     Message("dA", "u3", ShortText, Some(1)) >>
    /\ QuietClient

\* the caller made no call yet
FirstCall(c) == proc[c].pc = "idle"

NextBoard ==
    \/ \E c \in Callers : FirstCall(c) /\ StartCreateMessage(c)
    \/ \E c \in Callers : FirstCall(c) /\ StartEditMessage(c)
    \/ \E c \in Callers : FirstCall(c) /\ StartDeleteMessage(c)
    \/ \E c \in Callers : FirstCall(c) /\ StartGetDiscussion(c)
    \/ \E c \in Callers : FirstCall(c) /\ StartToggleDiscussionLock(c)
    \/ \E c \in Callers : FirstCall(c) /\ StartToggleDiscussionActive(c)
    \/ \E c \in Callers : FirstCall(c) /\ StartUpdateUserRole(c)
    \/ \E c \in Callers : FirstCall(c) /\ StartRemove(c)
    \/ \E c \in Callers : LoadBoardUser(c)
    \/ \E c \in Callers : LoadDiscussion(c)
    \/ \E c \in Callers : LoadParentMessage(c)
    \/ \E c \in Callers : CreateMessageRow(c)
    \/ \E c \in Callers : UpdateDiscussion(c)
    \/ \E c \in Callers : LoadMessage(c)
    \/ \E c \in Callers : LoadMessageUser(c)
    \/ \E c \in Callers : UpdateMessage(c)
    \/ \E c \in Callers : LoadRoleTarget(c)
    \/ \E c \in Callers : UpdateRole(c)
    \/ \E c \in Callers : LoadDbUser(c)
    \/ \E c \in Callers : RemoveFindTarget(c)
    \/ \E c \in Callers : RemoveDelete(c)

SpecBoard == InitBoard /\ [][NextBoard]_vars

\* Buying a subscription: the owner u1 and the second owner u2 of an
\* organization of 60 users without a subscription call createCheckoutSession,
\* the customer pays sessions, and the deliveries of the provider's events
\* run beside each other and beside the calls.  Another organization has its
\* subscriptions row.
InitCheckout ==
    /\ arg = 0
    /\ call = "none"
    /\ ret = Returned(0)
    /\ env = ConfiguredEnv
    /\ userRole = [ u \in Users |-> IF u = "u3" THEN "MEMBER" ELSE "OWNER" ]
    /\ others = 60 - Cardinality(Users)
    /\ maxMembers = FREE_SEATS_THRESHOLD
    /\ dbSub = NoSubscription
    /\ stripe = NoProviderSubscription
    /\ events = {}
    /\ proc = [ c \in Callers |-> IdleProc ]
    /\ opsLeft = MaxOps
    /\ sessions = [ checkout |-> << >>, portal |-> 0 ]
    /\ response = [ signature |-> "none", type |-> "none", status |-> 0, handler |-> "none" ]
    /\ subscriptions = { SubscriptionRow(1, "orgB", 0, FREE_SEATS_THRESHOLD) }
    /\ hooks = << >>
    /\ QuietBoard
    /\ QuietClient

NextCheckout ==
    \/ \E c \in Callers : StartCheckout(c)
    \/ \E c \in Callers : LoadBillingUser(c)
    \/ \E c \in Callers : CreateCheckout(c)
    \/ CompleteCheckout
    \/ \E h \in 1..Len(hooks) : UpsertFind(h)
    \/ \E h \in 1..Len(hooks) : UpsertCreate(h)
    \/ \E h \in 1..Len(hooks) : UpsertUpdate(h)
    \/ \E h \in 1..Len(hooks) : UpsertMaxMembers(h)

SpecCheckout == InitCheckout /\ [][NextCheckout]_vars

-----------------------------------------------------------------------------
(* What the specification states, written from its own words               *)

\* the per-seat rate the tier table of the specification gives a seat count
SpecRate(seats) ==
    IF seats <= 50 THEN 0 ELSE IF seats <= 75 THEN 999 ELSE IF seats <= 200 THEN 799 ELSE 599

\* the tier label the specification gives a seat count of at least 1
SpecLabel(seats) ==
    IF seats <= 50 THEN "Freemium" ELSE IF seats <= 75 THEN "Growth"
    ELSE IF seats <= 200 THEN "Thrive" ELSE "Enterprise"

\* the configured price id of the tier a seat count above 50 falls in
SpecTierPrice(seats) ==
    IF seats <= 75 THEN env["STRIPE_PRICE_ID_GROWTH"]
    ELSE IF seats <= 200 THEN env["STRIPE_PRICE_ID_THRIVE"]
    ELSE env["STRIPE_PRICE_ID_ENTERPRISE"]

\* the line items the specification gives a seat count, as (price, quantity) pairs
SpecItems(seats) ==
    { [ price |-> env["STRIPE_PRICE_ID_BASE_FEE"], quantity |-> 1 ] }
        \cup ( IF seats > 50
               THEN { [ price |-> SpecTierPrice(seats), quantity |-> seats - 50 ] }
               ELSE {} )

PriceQuantities(items) ==
    { [ price |-> items[k].price, quantity |-> items[k].quantity ] : k \in 1..Len(items) }

C2_ItemsContent ==
    call = "getStripeSubscriptionItems" =>
        /\ ret.kind = "returned"
        /\ Len(ret.value) >= 1
        /\ ret.value[1] = [ price |-> env["STRIPE_PRICE_ID_BASE_FEE"], quantity |-> 1 ]
        /\ arg > 50 =>
              /\ Len(ret.value) >= 2
              /\ ret.value[2] = [ price |-> SpecTierPrice(arg), quantity |-> arg - 50 ]
        /\ \A i \in 1..Len(ret.value) : ret.value[i].quantity >= 1

C2_Witness ==
    /\ call = "getStripeSubscriptionItems" /\ arg = 200 /\ env = ConfiguredEnv
    /\ ret.value[2] = [ price |-> "price_thrive", quantity |-> 150 ]

\* C3: for every seat count >= 0 the line-item list has one or two items, two
\* exactly when the seat count is above 50, and no item of quantity 0.
C3_ItemsLength ==
    (call = "getStripeSubscriptionItems" /\ arg >= 0) =>
        /\ Len(ret.value) \in { 1, 2 }
        /\ Len(ret.value) = 2 <=> arg > 50
        /\ \A i \in 1..Len(ret.value) : ret.value[i].quantity # 0

C3_Witness == call = "getStripeSubscriptionItems" /\ arg = 51 /\ Len(ret.value) = 2

\* C7: the tier resolved for 0 seats, or any count below every minSeats, is
\* never the last, unbounded tier: it is the first tier or an explicit failure.
C7_ZeroSeatsNotLastTier ==
    (call = "getPricingTier" /\ arg >= 0 /\ arg < 1) =>
        \/ ret.kind = "NoMatchingTier"
        \/ ret.kind = "InvalidArgument"
        \/ ret.kind = "returned" /\ ret.value.label = "Freemium"

\* C8: a negative seat count handed to a cost or line-item function fails with
\* an InvalidArgument error; it is not priced as the flat fee.
C8_NegativeSeatsRejected ==
    ( /\ call \in { "calculateTotalCost", "calculateVariableCost",
                    "getStripeSubscriptionItems" }
      /\ arg < 0 ) => ret.kind = "InvalidArgument"

\* C9: when the price id of the tier resolved for a seat count above 50 is not
\* configured, line-item generation fails; it returns no list.
C9_MissingPriceIdFails ==
    ( /\ call = "getStripeSubscriptionItems"
      /\ arg > 50
      /\ SpecTierPrice(arg) = Undefined ) => ret.kind = "ConfigurationMissing"

\* C10: for every seat count >= 1, getPricingTier returns the one tier whose
\* inclusive range holds the seat count: Freemium for 1-50, Growth for 51-75,
\* Thrive for 76-200, Enterprise from 201.
C10_TierOfSeats ==
    (call = "getPricingTier" /\ arg >= 1) =>
        /\ ret.kind = "returned"
        /\ ret.value.label = SpecLabel(arg)
        /\ ret.value.minSeats <= arg
        /\ \A m \in ret.value.maxSeats : arg <= m
        /\ Cardinality({ i \in 1..Len(PRICING_TIERS) :
                            /\ PRICING_TIERS[i].minSeats <= arg
                            /\ \A m \in PRICING_TIERS[i].maxSeats : arg <= m }) = 1
        /\ \E i \in 1..Len(PRICING_TIERS) : PRICING_TIERS[i] = ret.value

C10_Witness ==
    /\ call = "getPricingTier"
    /\ arg = 201
    /\ ret.value.label = "Enterprise"

C12_TotalIsFlatPlusVariable ==
    /\ (call = "calculateTotalCost" /\ arg >= 0) =>
            ret.value = FLAT_FEE_CENTS + calculateVariableCost(arg)
    /\ (call = "calculateVariableCost" /\ arg >= 0) =>
            calculateTotalCost(arg) = FLAT_FEE_CENTS + ret.value

C12_Witness ==
    /\ call = "calculateVariableCost"
    /\ arg = 100
    /\ ret.value = 39950
    /\ calculateTotalCost(arg) = 41949

\* C13: for every seat count from 0 to 50, 0 included where no tier range
\* matches, the variable cost is 0 and the total cost is 1999.
C13_FreeSeats ==
    (arg >= 0 /\ arg <= 50) =>
        /\ call = "calculateVariableCost" => ret.value = 0
        /\ call = "calculateTotalCost" => ret.value = 1999

C13_Witness ==
    /\ call = "calculateVariableCost"
    /\ arg = 0
    /\ getPricingTier(arg).pricePerPaidSeat # 0
    /\ ret.value = 0

\* C14: for every seat count >= 0, the total cost is at least the flat fee.
C14_FlatFeeLowerBound ==
    (call = "calculateTotalCost" /\ arg >= 0) => ret.value >= FLAT_FEE_CENTS

C14_Witness ==
    /\ call = "calculateTotalCost"
    /\ arg = 0
    /\ ret.value = FLAT_FEE_CENTS

\* C15: the tier table is well-formed: the first tier starts at 1 seat, each
\* bounded tier is followed by the tier that starts one seat above its maxSeats,
\* only the last tier is unbounded, labels are unique, no price is negative; so
\* the seat count of a call, when >= 1, lies in the range of exactly one tier.
C15_TierTableWellFormed ==
    LET n == Len(PRICING_TIERS)
    IN  /\ n >= 1
        /\ PRICING_TIERS[1].minSeats = 1
        /\ \A i \in 1..(n - 1) :
              /\ PRICING_TIERS[i].maxSeats # Null
              /\ PRICING_TIERS[i].minSeats <= MinOf(PRICING_TIERS[i].maxSeats)
              /\ MinOf(PRICING_TIERS[i].maxSeats) + 1 = PRICING_TIERS[i + 1].minSeats
        /\ PRICING_TIERS[n].maxSeats = Null
        /\ Cardinality({ i \in 1..n : PRICING_TIERS[i].maxSeats = Null }) = 1
        /\ \A i, j \in 1..n : PRICING_TIERS[i].label = PRICING_TIERS[j].label => i = j
        /\ \A i \in 1..n : PRICING_TIERS[i].pricePerPaidSeat >= 0
        /\ (call = "getPricingTier" /\ arg >= 1) =>
              /\ Cardinality({ i \in 1..n :
                                  /\ arg >= PRICING_TIERS[i].minSeats
                                  /\ \A m \in PRICING_TIERS[i].maxSeats : arg <= m }) = 1
              /\ arg >= ret.value.minSeats
              /\ \A m \in ret.value.maxSeats : arg <= m

C15_Witness ==
    /\ call = "getPricingTier"
    /\ arg = 75
    /\ ret.value = PRICING_TIERS[2]
    /\ PRICING_TIERS[3].minSeats = 76

-----------------------------------------------------------------------------
(* The seat-count change flows                                             *)

\* a caller whose action has sent, or tried to send, an update to the provider
HasRequest(c) == proc[c].request # << >>

\* an update that the provider applied and that no other server action overlapped
AppliedAlone(c) ==
    /\ ~ proc[c].overlap
    /\ \/ proc[c].pc = "dbUpdate"
       \/ /\ proc[c].pc = "done"
          /\ proc[c].result = "success"
          /\ proc[c].snapSub
          /\ opsLeft = MaxOps - 1

\* C4: the request of a seat-count change holds, for every desired item, one entry
\* with the id of the existing item of the same price when there is one and with
\* no id when there is none, then one {id, deleted} entry for every existing item
\* whose price is not desired, and nothing else.
C4_Reconciliation ==
    \A c \in Callers : HasRequest(c) =>
        LET desired  == getStripeSubscriptionItems(proc[c].newQuantity)
            existing == proc[c].current
            out      == proc[c].request
            same(i)  == { k \in 1..Len(existing) : existing[k].price = desired[i].price }
            stale    == { k \in 1..Len(existing) :
                            \A i \in 1..Len(desired) : desired[i].price # existing[k].price }
        IN  /\ Len(out) = Len(desired) + Cardinality(stale)
            /\ \A i \in 1..Len(desired) :
                  /\ ~ IsDeletion(out[i])
                  /\ out[i].price = desired[i].price
                  /\ out[i].quantity = desired[i].quantity
                  /\ same(i) = {} => out[i].id = Null
                  /\ same(i) # {} => \E k \in same(i) : out[i].id = Some(existing[k].id)
            /\ \A k \in stale :
                  \E j \in 1..Len(out) : out[j] = [ id |-> Some(existing[k].id), deleted |-> TRUE ]
            /\ \A j \in (Len(desired) + 1)..Len(out) :
                  \E k \in stale : out[j] = [ id |-> Some(existing[k].id), deleted |-> TRUE ]

\* a request that updates the flat fee in place, inserts a tier and deletes another
C4_Witness ==
    \E c \in Callers :
        /\ HasRequest(c)
        /\ Len(proc[c].request) = 3
        /\ proc[c].request[1].id # Null
        /\ proc[c].request[2].id = Null
        /\ IsDeletion(proc[c].request[3])

\* C5: after an add or remove that no other overlapped, the provider holds exactly
\* the items of the new seat count: the flat-fee item, kept under its id with
\* quantity 1, and at most one tier item; a tier item of another tier is gone and
\* the new tier's item is a new one; no tier item is left at 50 seats or fewer.
C5_ProviderItemsAfterChange ==
    \A c \in Callers : AppliedAlone(c) =>
        LET n      == proc[c].newQuantity
            before == proc[c].current
            after  == stripe.items
            base   == env["STRIPE_PRICE_ID_BASE_FEE"]
        IN  /\ n = UserCount
            /\ PriceQuantities(after) = SpecItems(n)
            /\ Len(after) = Cardinality(SpecItems(n))
            /\ Len(after) <= 2
            /\ n <= 50 => Len(after) = 1
            /\ \A k \in 1..Len(before) :
                  IF before[k].price = base \/ (n > 50 /\ before[k].price = SpecTierPrice(n))
                  THEN \E j \in 1..Len(after) :
                          after[j].id = before[k].id /\ after[j].price = before[k].price
                  ELSE before[k].id \notin ItemIds(after)
            /\ \A j \in 1..Len(after) :
                  after[j].price \notin ItemPrices(before) => after[j].id \notin ItemIds(before)

\* Growth x 25 is billed, the organization goes to 100 seats: the flat fee stays,
\* Thrive x 50 is inserted, the Growth item is deleted
C5_Witness ==
    \E c \in Callers :
        /\ AppliedAlone(c)
        /\ proc[c].newQuantity = 100
        /\ PriceQuantities(proc[c].current)
              = { [ price |-> "price_base_fee", quantity |-> 1 ],
                  [ price |-> "price_growth", quantity |-> 25 ] }
        /\ stripe.items = << [ id |-> 1, price |-> "price_base_fee", quantity |-> 1 ],
                             [ id |-> 3, price |-> "price_thrive", quantity |-> 50 ] >>

\* C6: once two seat-count changes of the organization have both returned
\* success, the provider's items, its metadata totalSeats and the stored quantity
\* are those of the organization's user count, however the two were interleaved
\* (every price id configured, no webhook delivered in between).
C6_NoLostUpdate ==
    ( /\ env = ConfiguredEnv
      /\ dbSub.present
      /\ \A c \in Callers : proc[c].pc = "done" /\ proc[c].result = "success"
                              /\ proc[c].snapSub
      /\ Cardinality(events) = stripe.nextEvent - 1 ) =>
        /\ ParseTotalSeats(stripe.totalSeats) = UserCount
        /\ dbSub.quantity = UserCount
        /\ PriceQuantities(stripe.items) = SpecItems(UserCount)

-----------------------------------------------------------------------------
(* Growing across the tier boundaries                                      *)

\* C16: an organization with fewer users than the seats it bought keeps adding
\* users, the webhooks delivered in between: an add of its owner is not refused
\* with "User limit reached" while the user count is below the seats bought.
C16_AddsSucceedBelowPurchasedSeats ==
    \A c \in Callers :
        ( /\ proc[c].op = "add"
          /\ proc[c].pc = "done"
          /\ proc[c].result = "User limit reached" ) =>
            proc[c].currentUserCount >= PurchasedSeats

-----------------------------------------------------------------------------
(* The webhook endpoint                                                    *)

\* C19: a request without a stripe-signature header, or with a signature that
\* does not verify, is answered 400, runs no event handler and leaves the
\* subscriptions row and the organization as they were; a handler runs only for
\* a request whose signature verified.
C19_SignatureBeforeHandling ==
    [][ /\ response'.signature \in { "absent", "invalid" } =>
              /\ response'.status = 400
              /\ response'.handler = "none"
              /\ UNCHANGED << dbSub, maxMembers, userRole, others, stripe >>
        /\ (response'.handler # "none" \/ dbSub' # dbSub \/ maxMembers' # maxMembers) =>
              response'.signature = "valid" ]_vars

\* a forged cancellation of the organization's subscription was turned away
C19_Witness ==
    /\ response.signature = "invalid"
    /\ response.type = "customer.subscription.deleted"
    /\ response.status = 400
    /\ dbSub.present
    /\ dbSub.status = "ACTIVE"

-----------------------------------------------------------------------------
(* Who may manage users and billing                                        *)

\* the organization's users, its subscriptions row and what the provider holds
ManagedState == << userRole, others, maxMembers, dbSub, stripe, sessions, events >>

\* C17: a step of addUserToOrganization, removeUserFromOrganization,
\* createCheckoutSession, createPortalSession, cancelSubscription or
\* reactivateSubscription made for a caller who is not signed in or whose role is
\* not OWNER changes neither the users, the subscriptions row, maxMembers nor the
\* provider's state, and the call does not return success.
C17_OnlyOwnerManages ==
    [][ \A c \in Callers :
          ( /\ proc'[c] # proc[c]
            /\ \/ userRole[c] # "OWNER"
               \/ proc'[c].result = "Unauthorized" ) =>
              /\ UNCHANGED ManagedState
              /\ proc'[c].result # "success"
              /\ proc'[c].pc \in { "dbUser", "billingUser", "done" } ]_vars

\* an admin's cancelSubscription was refused, the subscription is not set to cancel
C17_Witness ==
    /\ userRole["u2"] = "ADMIN"
    /\ proc["u2"].op = "cancel"
    /\ proc["u2"].pc = "done"
    /\ proc["u2"].result = "Only owners can manage subscriptions"
    /\ dbSub.present
    /\ ~ dbSub.cancelAtPeriodEnd
    /\ ~ stripe.cancel_at_period_end

-----------------------------------------------------------------------------
(* Organization isolation                                                  *)

\* the call of this record names a user, a discussion or a message of another
\* organization than the caller's
TargetsOtherOrganization(p) ==
    \/ p.op \in { "remove", "updateUserRole" } /\ p.target = Outsider
    \/ /\ p.op \in { "createMessage", "getDiscussion", "toggleDiscussionLock",
                     "toggleDiscussionActive" }
       /\ p.discussion \in DiscussionIds
       /\ discussions[p.discussion].organizationId # "orgA"
    \/ /\ p.op \in { "editMessage", "deleteMessage" }
       /\ FindMessage(p.message) # Null
       /\ discussions[messages[p.message].discussionId].organizationId # "orgA"

\* the ids of the messages of this table in a discussion of another organization
\* than the callers'
OtherOrganizationMessages(table) ==
    { k \in 1..Len(table) :
        /\ table[k].discussionId \in DiscussionIds
        /\ discussions[table[k].discussionId].organizationId # "orgA" }

\* C18: no step of a server action called by a user of one organization changes
\* the user, a discussion or a message of another organization, adds a message to
\* its discussion, or returns its discussion; a call of removeUserFromOrganization,
\* updateUserRole, createMessage, editMessage, deleteMessage, getDiscussion,
\* toggleDiscussionLock or toggleDiscussionActive that names such a target ends
\* with an error.
C18_OrganizationIsolation ==
    [][ /\ outsiderRole' = outsiderRole
        /\ \A d \in DiscussionIds :
              discussions[d].organizationId # "orgA" => discussions'[d] = discussions[d]
        /\ OtherOrganizationMessages(messages') = OtherOrganizationMessages(messages)
        /\ \A k \in OtherOrganizationMessages(messages) : messages'[k] = messages[k]
        /\ \A c \in Callers :
              /\ proc'[c].data # Null =>
                    The(proc'[c].data).organizationId = OrgOf(c)
              /\ (proc'[c].pc = "done" /\ TargetsOtherOrganization(proc'[c])) =>
                    /\ proc'[c].result \in { "Unauthorized", "Access denied",
                                             "User not in your organization",
                                             "User not found",
                                             "Only owners",
                                             "You can only edit your own messages",
                                             "Insufficient permissions",
                                             "Only admins and owners can lock discussions",
                                             "Only admins and owners can archive discussions" }
                    /\ proc'[c].data = Null ]_vars

\* the owner was refused the removal of the other organization's user and the
\* admin a message in the other organization's discussion
C18_Witness ==
    /\ proc["u1"].op = "remove"
    /\ proc["u1"].target = Outsider
    /\ proc["u1"].result = "User not in your organization"
    /\ userRole["u2"] = "ADMIN"
    /\ proc["u2"].op = "createMessage"
    /\ proc["u2"].discussion = "dB"
    /\ proc["u2"].result = "Access denied"
    /\ outsiderRole = "MEMBER"

-----------------------------------------------------------------------------
(* Messages and closed discussions                                         *)

\* createMessage has to refuse these arguments now: the discussion is locked or
\* inactive, the content is empty or white space or longer than 5000 characters,
\* or the parent is a message of another discussion
MustRefuse(p) ==
    \/ /\ p.discussion \in DiscussionIds
       /\ \/ discussions[p.discussion].isLocked
          \/ ~ discussions[p.discussion].isActive
    \/ Length(p.content) = 0
    \/ p.content.body = 0
    \/ Length(p.content) > 5000
    \/ /\ p.parent # Null
       /\ FindMessage(The(p.parent)) # Null
       /\ The(FindMessage(The(p.parent))).discussionId # p.discussion

\* C20: no message is ever created in a discussion that is locked or inactive:
\* when a call of createMessage ends while its discussion is locked or inactive,
\* or with a content that is empty, white space or longer than 5000 characters,
\* or with a parent of another discussion, it ends with an error and no message
\* was added; and a step that adds a message adds it to a discussion that is
\* active and not locked.
C20_NoMessageInClosedDiscussion ==
    [][ /\ \A c \in Callers :
              ( /\ proc[c].op = "createMessage"
                /\ proc[c].pc # "done"
                /\ proc'[c].pc = "done"
                /\ MustRefuse(proc[c]) ) =>
                    /\ proc'[c].result # "success"
                    /\ messages' = messages
        /\ Len(messages') > Len(messages) =>
              LET row == messages'[Len(messages')]
              IN  /\ discussions[row.discussionId].isActive
                  /\ ~ discussions[row.discussionId].isLocked ]_vars

-----------------------------------------------------------------------------
(* Who edits and who deletes a message                                     *)

\* the organization of the discussion the message row belongs to
MessageOrganization(row) == discussions[row.discussionId].organizationId

\* the caller's call of editMessage or deleteMessage passed its checks in this step
PassesMessageChecks(c) == proc[c].pc = "messageUser" /\ proc'[c].pc = "updateMessage"

\* the caller's call of editMessage or deleteMessage writes the row in this step
WritesMessage(c, k, op) ==
    /\ proc[c].pc = "updateMessage"
    /\ proc[c].op = op
    /\ proc[c].message = k
    /\ proc'[c].pc = "done"

\* C21: the content of a message changes only in a step of editMessage, and only
\* a call of its own author gets past the checks of editMessage; isDeleted is set
\* only in a step of deleteMessage, and only a call of the author or of an ADMIN
\* or OWNER of the same organization gets past the checks of deleteMessage; any
\* other caller's call ends at the checks with an error, the messages unchanged.
C21_OnlyAuthorEditsOnlyModeratorsDelete ==
    [][ /\ \A k \in 1..Len(messages) :
              ( messages[k] # NoMessage /\ messages'[k] # NoMessage ) =>
                  /\ messages'[k].content # messages[k].content =>
                        \E c \in Callers : WritesMessage(c, k, "editMessage")
                  /\ messages'[k].isDeleted # messages[k].isDeleted =>
                        /\ messages'[k].isDeleted
                        /\ \E c \in Callers : WritesMessage(c, k, "deleteMessage")
                  /\ messages'[k].authorId = messages[k].authorId
        /\ \A c \in Callers :
              ( proc[c].pc = "messageUser" /\ proc'[c].pc # "messageUser" ) =>
                  LET row == The(proc[c].read)
                      mayEdit == row.authorId = c /\ userRole[c] # "NONE"
                      mayDelete ==
                          /\ row.organizationId = OrgOf(c)
                          /\ \/ row.authorId = c /\ userRole[c] # "NONE"
                             \/ userRole[c] \in { "ADMIN", "OWNER" }
                      allowed == IF proc[c].op = "editMessage" THEN mayEdit ELSE mayDelete
                  IN  /\ PassesMessageChecks(c) => allowed
                      /\ ~ allowed =>
                            /\ proc'[c].pc = "done"
                            /\ proc'[c].result # "success"
                            /\ messages' = messages ]_vars

\* the owner deleted the message of member u3, and member u2 was refused the
\* edit of that message
C21_Witness ==
    /\ proc["u1"].op = "deleteMessage"
    /\ proc["u1"].message = 3
    /\ proc["u1"].result = "success"
    /\ messages[3].authorId = "u3"
    /\ messages[3].isDeleted
    /\ userRole["u2"] = "MEMBER"
    /\ proc["u2"].op = "editMessage"
    /\ proc["u2"].message = 3
    /\ proc["u2"].result = "You can only edit your own messages"
    /\ messages[3].content = ShortText
    /\ ~ messages[3].isEdited

-----------------------------------------------------------------------------
(* One subscription per organization                                       *)

\* C22: a call of createCheckoutSession whose read of the organization finds a
\* subscription record, or that asks for less than one seat, ends there with an
\* error; a checkout session is created only by a call that passed these checks,
\* for at least one seat; and every organization has at most one row in the
\* subscriptions table, whatever deliveries of the webhook overlap.
C22_OneSubscriptionPerOrganization ==
    [][ /\ \A c \in Callers :
              ( /\ proc[c].op = "checkout"
                /\ proc[c].pc = "billingUser"
                /\ proc'[c].pc # "billingUser"
                /\ dbSub.present \/ proc[c].seats < 1 ) =>
                    /\ proc'[c].pc = "done"
                    /\ proc'[c].result # "success"
                    /\ sessions' = sessions
        /\ sessions'.checkout # sessions.checkout =>
              \E c \in Callers :
                  /\ proc[c].op = "checkout"
                  /\ proc[c].pc = "checkout"
                  /\ proc[c].seats >= 1
                  /\ proc'[c].result = "success"
                  /\ Len(sessions'.checkout) = Len(sessions.checkout) + 1
        /\ \A o \in { r.organizationId : r \in subscriptions' } :
              Cardinality({ r \in subscriptions' : r.organizationId = o }) = 1 ]_vars

\* both deliveries of a paid checkout found no row; one created it and the other
\* was refused by the unique index; a later call of createCheckoutSession was
\* refused because of the row
C22_Witness ==
    /\ \E h \in 1..Len(hooks) : hooks[h].pc = "failed"
    /\ \E h \in 1..Len(hooks) : hooks[h].pc = "done" /\ hooks[h].existing = {}
    /\ Cardinality({ r \in subscriptions : r.organizationId = "orgA" }) = 1
    /\ dbSub.present
    /\ \E c \in Callers :
          /\ proc[c].op = "checkout"
          /\ proc[c].seats = PurchasedSeats
          /\ proc[c].result = "Organization already has an active subscription"

-----------------------------------------------------------------------------
(* Cancelling and reactivating                                             *)

\* C23: reactivateSubscription gets past its checks, and so succeeds, only when
\* the stored subscription it read has cancelAtPeriodEnd = true; the write of
\* cancelSubscription sets cancelAtPeriodEnd and canceledAt, the write of
\* reactivateSubscription sets cancelAtPeriodEnd = false and canceledAt = null,
\* and neither write touches status or quantity, so that cancelling and then
\* reactivating gives back the cancellation fields.
C23_CancelReactivateRoundTrip ==
    [][ \A c \in Callers :
          /\ ( /\ proc[c].op = "reactivate"
               /\ proc[c].pc = "billingUser"
               /\ proc'[c].pc # "billingUser"
               /\ ~ (dbSub.present /\ dbSub.cancelAtPeriodEnd) ) =>
                  /\ proc'[c].pc = "done"
                  /\ proc'[c].result # "success"
                  /\ dbSub' = dbSub
          /\ ( /\ proc[c].op \in { "cancel", "reactivate" }
               /\ proc'[c].pc = "done"
               /\ proc[c].pc # "done"
               /\ proc'[c].result = "success" ) =>
                  /\ proc[c].pc = "cancelStored"
                  /\ dbSub'.status = dbSub.status
                  /\ dbSub'.quantity = dbSub.quantity
                  /\ IF proc[c].op = "cancel"
                     THEN dbSub'.cancelAtPeriodEnd /\ dbSub'.canceledAt # Null
                     ELSE ~ dbSub'.cancelAtPeriodEnd /\ dbSub'.canceledAt = Null
          /\ ( /\ proc[c].op \in { "cancel", "reactivate" }
               /\ proc[c].pc # "cancelStored"
               /\ proc'[c].pc # proc[c].pc ) =>
                  dbSub' = dbSub ]_vars

\* the owner cancelled and then reactivated; the stored subscription is the one
\* there was before
C23_Witness ==
    /\ stripe.nextEvent = 3
    /\ proc["u1"].op = "reactivate"
    /\ proc["u1"].result = "success"
    /\ proc["u2"].pc = "idle"
    /\ events = {}
    /\ dbSub = StoredSubscriptionFor(PurchasedSeats)
    /\ ~ stripe.cancel_at_period_end

-----------------------------------------------------------------------------
(* addUserToOrganization when the provider fails                           *)

\* C24: addUserToOrganization is all-or-nothing: when a call of the owner, the
\* only one who changes the organization, has returned success = false after
\* counting the users, the organization has the users the call counted (no user
\* record was added).
C24_FailedAddAddsNoUser ==
    ( /\ proc["u1"].op = "add"
      /\ proc["u1"].pc = "done"
      /\ proc["u1"].result # "success"
      /\ proc["u1"].currentUserCount > 0 ) =>
          UserCount = proc["u1"].currentUserCount

-----------------------------------------------------------------------------
(* Membership and the limit                                                *)

\* C25: in every reachable state the organization has at most
\* organization.maxMembers users, under any ordering of add and remove actions
\* and webhook deliveries.
C25_MembershipWithinLimit == UserCount <= maxMembers

-----------------------------------------------------------------------------
(* Owners                                                                  *)

\* C26: in every reachable state the organization has at least one user with
\* the role OWNER, whatever calls of removeUserFromOrganization and
\* updateUserRole were made.
C26_AlwaysAnOwner == \E u \in Users : userRole[u] = "OWNER"

-----------------------------------------------------------------------------
(* A cancelled subscription and later invoices                             *)

\* C27: once customer.subscription.deleted was handled and the stored status is
\* CANCELED, the handling of an invoice.paid or invoice.payment_failed event
\* leaves the status CANCELED.
C27_CanceledStaysCanceled ==
    [][ ( /\ dbSub.present
          /\ dbSub.status = "CANCELED"
          /\ dbSub.canceledAt # Null
          /\ response' # response
          /\ response'.type \in { STRIPE_WEBHOOK_EVENTS.INVOICE_PAID,
                                  STRIPE_WEBHOOK_EVENTS.INVOICE_PAYMENT_FAILED } ) =>
              dbSub'.status = "CANCELED" ]_vars

-----------------------------------------------------------------------------
(* Two owners and nobody else                                              *)

\* An organization whose only users are the two owners u1 and u2; its checkout
\* bought PurchasedSeats seats.  Each owner adds or removes users.
InitPair ==
    /\ arg = 0
    /\ call = "none"
    /\ ret = Returned(0)
    /\ env = ConfiguredEnv
    /\ userRole = [ u \in Users |-> IF u \in Callers THEN "OWNER" ELSE "NONE" ]
    /\ others = 0
    /\ maxMembers = PurchasedSeats
    /\ dbSub = StoredSubscriptionFor(PurchasedSeats)
    /\ stripe = ProviderSubscriptionFor(PurchasedSeats)
    /\ events = {}
    /\ proc = [ c \in Callers |-> IdleProc ]
    /\ opsLeft = MaxOps
    /\ QuietHook
    /\ QuietBoard
    /\ QuietClient

NextPair ==
    \/ \E c \in Callers : StartAdd(c)
    \/ \E c \in Callers : StartRemove(c)
    \/ \E c \in Callers : LoadDbUser(c)
    \/ \E c \in Callers : AddFindExisting(c)
    \/ \E c \in Callers : AddCount(c)
    \/ \E c \in Callers : AddCreate(c)
    \/ \E c \in Callers : RemoveFindTarget(c)
    \/ \E c \in Callers : RemoveDelete(c)
    \/ \E c \in Callers : RemoveCount(c)
    \/ \E c \in Callers : RetrieveSubscription(c)
    \/ \E c \in Callers : UpdateSubscription(c)
    \/ \E c \in Callers : UpdateStoredQuantity(c)
    \/ DeliverSubscriptionUpdated

SpecPair == InitPair /\ [][NextPair]_vars

\* C28: the seat count the add and remove flows hand to
\* getStripeSubscriptionItems, once the provider's subscription is retrieved, is
\* at least 1.
C28_SeatCountAtLeastOne ==
    \A c \in Callers : proc[c].pc = "update" => proc[c].newQuantity >= 1

-----------------------------------------------------------------------------
(* components/discussion/message-list.tsx                                  *)

\* the discussion whose page the client shows
ShownDiscussion == "dA"
\* callbacks the channel invokes in one behaviour
MaxCallbacks == 3

\* a message as the list holds it: its id and the columns of its row
Entry(id, row) == [ id |-> id, row |-> row ]

\* getDiscussion: the discussion's messages where isDeleted is false, ordered by
\* createdAt, from message k on
RECURSIVE MessagesFrom(_, _)
MessagesFrom(k, discussionId) ==
    IF k > Len(messages) THEN << >>
    ELSE ( IF k \in DiscussionWithMessages(discussionId).messages
           THEN << Entry(k, messages[k]) >> ELSE << >> )
         \o MessagesFrom(k + 1, discussionId)

\* useState(initialMessages), initialMessages = discussion.messages
initialMessages == MessagesFrom(1, ShownDiscussion)

\* .on("postgres_changes", { event, table: "messages",
\*       filter: `discussion_id=eq.${discussionId}` }): the changes of the rows
\* `ids` of a table that the channel receives
Change(event, id) == [ event |-> event, id |-> id ]
Announced(event, ids, table) ==
    { Change(event, k) : k \in { k \in ids : table[k].discussionId = ShownDiscussion } }

\* what the rest of the program leaves alone while the table and the page change
besideClient == << env, pricingVars, hookVars, deliveryVars, billingState, proc, discussions >>

\* createMessage's prisma.message.create of user u1 commits: a row is inserted
RowInserted ==
    /\ opsLeft > 0
    /\ opsLeft' = opsLeft - 1
    /\ \E d \in DiscussionIds :
          messages' = Append(messages, Message(d, "u1", ShortText, Null))
    /\ channel' = channel \cup Announced("INSERT", { Len(messages') }, messages')
    /\ UNCHANGED << besideClient, userRole, outsiderRole, messageList, fetches, callbacksLeft >>

\* editMessage's or deleteMessage's prisma.message.update commits: a row is updated
RowUpdated ==
    /\ opsLeft > 0
    /\ opsLeft' = opsLeft - 1
    /\ \E id \in 1..Len(messages), op \in { "editMessage", "deleteMessage" } :
          /\ FindMessage(id) # Null
          /\ messages' = IF op = "editMessage"
                         THEN [ messages EXCEPT ![id].isEdited = TRUE ]
                         ELSE [ messages EXCEPT ![id].isDeleted = TRUE ]
          /\ channel' = channel \cup Announced("UPDATE", { id }, messages)
    /\ UNCHANGED << besideClient, userRole, outsiderRole, messageList, fetches, callbacksLeft >>

\* removeUserFromOrganization's prisma.user.delete commits: the user's messages
\* are deleted (ON DELETE CASCADE) and their replies lose their parent (SET NULL)
AuthorDeleted ==
    /\ opsLeft > 0
    /\ opsLeft' = opsLeft - 1
    /\ \E u \in (Users \cup { Outsider }) \ { "u1" } :
          LET gone == { k \in 1..Len(messages) : messages[k].authorId = u }
              orphaned == { k \in 1..Len(messages) :
                              /\ k \notin gone
                              /\ messages[k].parentMessageId \cap gone # {} }
          IN  /\ RoleOf(u) # "NONE"
              /\ IF u = Outsider
                 THEN outsiderRole' = "NONE" /\ UNCHANGED userRole
                 ELSE /\ userRole' = [ userRole EXCEPT ![u] = "NONE" ]
                      /\ UNCHANGED outsiderRole
              /\ messages' = MessagesWithoutAuthor(u)
              /\ channel' = channel \cup Announced("DELETE", gone, messages)
                                    \cup Announced("UPDATE", orphaned, messages)
    /\ UNCHANGED << besideClient, messageList, fetches, callbacksLeft >>

\* a run of a callback of the channel on a change
Fetch(change) ==
    [ event |-> change.event, id |-> change.id, pc |-> "select", data |-> Null ]

\* the INSERT callback is invoked: supabase.from("messages").select(...) is sent
OnInsert ==
    /\ callbacksLeft > 0
    /\ callbacksLeft' = callbacksLeft - 1
    /\ \E change \in channel :
          /\ change.event = "INSERT"
          /\ fetches' = Append(fetches, Fetch(change))
    /\ UNCHANGED << besideClient, boardVars, userRole, opsLeft, messageList, channel >>

\* the UPDATE callback is invoked: supabase.from("messages").select(...) is sent
OnUpdate ==
    /\ callbacksLeft > 0
    /\ callbacksLeft' = callbacksLeft - 1
    /\ \E change \in channel :
          /\ change.event = "UPDATE"
          /\ fetches' = Append(fetches, Fetch(change))
    /\ UNCHANGED << besideClient, boardVars, userRole, opsLeft, messageList, channel >>

\* .eq("id", payload.new.id).single(): the row as the table holds it now; no row
\* is an error, and data is null then
SelectRow(f) ==
    /\ fetches[f].pc = "select"
    /\ fetches' = [ fetches EXCEPT ![f].pc = "resolved",
                                  ![f].data = FindMessage(fetches[f].id) ]
    /\ UNCHANGED << besideClient, boardVars, userRole, opsLeft, messageList, channel,
                    callbacksLeft >>

\* faulty variant: the new message is appended without looking at the list
AppendAlways(prev, typedMessage) == Append(prev, typedMessage)

\* setMessages((prev) => prev.some((m) => m.id === typedMessage.id)
\*                          ? prev : [...prev, typedMessage])
AppendUnlessListed(prev, typedMessage) ==
    IF \E i \in 1..Len(prev) : prev[i].id = typedMessage.id THEN prev
    ELSE Append(prev, typedMessage)

\* the INSERT callback after its await: return on an error, append a message
\* that is not deleted
InsertResolved(f) ==
    /\ fetches[f].pc = "resolved"
    /\ fetches[f].event = "INSERT"
    /\ fetches' = [ fetches EXCEPT ![f].pc = "done" ]
    /\ messageList' =
          IF fetches[f].data = Null \/ The(fetches[f].data).isDeleted THEN messageList
          ELSE AppendUnlessListed(messageList, Entry(fetches[f].id, The(fetches[f].data)))
    /\ UNCHANGED << besideClient, boardVars, userRole, opsLeft, channel, callbacksLeft >>

\* setMessages((prev) => prev.map((msg) =>
\*                 msg.id === payload.new.id ? updatedMessage : msg))
ReplaceListed(prev, id, updatedMessage) ==
    [ i \in 1..Len(prev) |-> IF prev[i].id = id THEN updatedMessage ELSE prev[i] ]

\* the UPDATE callback after its await: return on an error, replace the message
UpdateResolved(f) ==
    /\ fetches[f].pc = "resolved"
    /\ fetches[f].event = "UPDATE"
    /\ fetches' = [ fetches EXCEPT ![f].pc = "done" ]
    /\ messageList' =
          IF fetches[f].data = Null THEN messageList
          ELSE ReplaceListed(messageList, fetches[f].id,
                             Entry(fetches[f].id, The(fetches[f].data)))
    /\ UNCHANGED << besideClient, boardVars, userRole, opsLeft, channel, callbacksLeft >>

\* the DELETE callback:
\* setMessages((prev) => prev.filter((msg) => msg.id !== payload.old.id))
OnDelete ==
    /\ callbacksLeft > 0
    /\ callbacksLeft' = callbacksLeft - 1
    /\ \E change \in channel :
          /\ change.event = "DELETE"
          /\ fetches' = Append(fetches, [ Fetch(change) EXCEPT !.pc = "done" ])
          /\ messageList' = SelectSeq(messageList, LAMBDA msg : msg.id # change.id)
    /\ UNCHANGED << besideClient, boardVars, userRole, opsLeft, channel >>

\* The page of discussion dA is rendered with the messages getDiscussion
\* returned and subscribes to the channel; messages are then written and users
\* removed, and the channel invokes the callbacks on the changes it received,
\* each change any number of times and in any order.
InitClient ==
    /\ arg = 0
    /\ call = "none"
    /\ ret = Returned(0)
    /\ env = ConfiguredEnv
    /\ userRole = [ u \in Users |-> IF u = "u1" THEN "OWNER" ELSE "MEMBER" ]
    /\ others = 0
    /\ maxMembers = FREE_SEATS_THRESHOLD
    /\ dbSub = NoSubscription
    /\ stripe = NoProviderSubscription
    /\ events = {}
    /\ proc = [ c \in Callers |-> IdleProc ]
    /\ opsLeft = MaxOps
    /\ QuietHook
    /\ outsiderRole = "MEMBER"
    /\ discussions = [ d \in DiscussionIds |->
                         Discussion(IF d = "dA" THEN "orgA" ELSE "orgB", TRUE, FALSE) ]
    /\ messages = << Message("dA", "u2", ShortText, Null),
                     Message("dB", Outsider, ShortText, Null),
                     Message("dA", "u3", ShortText, Some(1)) >>
    /\ messageList = initialMessages
    /\ channel = {}
    /\ fetches = << >>
    /\ callbacksLeft = MaxCallbacks

NextClient ==
    \/ RowInserted
    \/ RowUpdated
    \/ AuthorDeleted
    \/ OnInsert
    \/ OnUpdate
    \/ OnDelete
    \/ \E f \in 1..Len(fetches) : SelectRow(f)
    \/ \E f \in 1..Len(fetches) : InsertResolved(f)
    \/ \E f \in 1..Len(fetches) : UpdateResolved(f)

SpecClient == InitClient /\ [][NextClient]_vars

\* the entries of the list that hold message id
ListedAt(id) == { i \in 1..Len(messageList) : messageList[i].id = id }

\* the step is a run of the DELETE callback
DeleteCallbackRan ==
    /\ Len(fetches') = Len(fetches) + 1
    /\ fetches'[Len(fetches')].event = "DELETE"

\* C29: the client's message list never holds two entries with the same message
\* id, whatever callbacks ran and in whatever order their fetches completed, and
\* a DELETE callback removes the one entry with its id, if listed, leaving the
\* other entries as they were and in their order.
C29_NoDuplicateMessageIds ==
    /\ [](\A id \in 1..Len(messages) : Cardinality(ListedAt(id)) <= 1)
    /\ [][ DeleteCallbackRan =>
             LET at == ListedAt(fetches'[Len(fetches')].id)
             IN  /\ Len(messageList') = Len(messageList) - Cardinality(at)
                 /\ \A i \in 1..Len(messageList') :
                       messageList'[i] =
                           messageList[IF \E a \in at : i >= a THEN i + 1 ELSE i] ]_vars

\* the INSERT callback ran twice on the same message and listed it once; a
\* DELETE callback took message 1, listed when the page was rendered, off the list
C29_Witness ==
    /\ \E f, g \in 1..Len(fetches) :
          /\ f # g
          /\ fetches[f].event = "INSERT" /\ fetches[g].event = "INSERT"
          /\ fetches[f].id = fetches[g].id
          /\ fetches[f].pc = "done" /\ fetches[g].pc = "done"
          /\ fetches[f].data # Null /\ fetches[g].data # Null
          /\ Cardinality(ListedAt(fetches[f].id)) = 1
    /\ \E f \in 1..Len(fetches) :
          /\ fetches[f].event = "DELETE"
          /\ fetches[f].id = 1
          /\ ListedAt(fetches[f].id) = {}

-----------------------------------------------------------------------------
(* The two lists of prices of a seat count                                 *)

\* the price ids of a list of subscription items, in order
PriceIdsOf(items) == [ i \in 1..Len(items) |-> items[i].price ]

\* C30: for every seat count, the list getStripePriceIds returns is the list of
\* the price ids of the items getStripeSubscriptionItems returns, in the same
\* order, and its first element is STRIPE_PRICE_IDS.BASE_FEE.
C30_PriceIdsMatchSubscriptionItems ==
    /\ call = "getStripePriceIds" =>
          /\ ret.value = PriceIdsOf(getStripeSubscriptionItems(arg))
          /\ Len(ret.value) >= 1
          /\ ret.value[1] = STRIPE_PRICE_IDS.BASE_FEE
    /\ call = "getStripeSubscriptionItems" =>
          /\ PriceIdsOf(ret.value) = getStripePriceIds(arg)
          /\ Len(ret.value) >= 1
          /\ ret.value[1].price = STRIPE_PRICE_IDS.BASE_FEE

\* getStripePriceIds returned the base fee and a tier's price id
C30_Witness ==
    /\ call = "getStripePriceIds"
    /\ arg > FREE_SEATS_THRESHOLD
    /\ Len(ret.value) = 2
    /\ ret.value[2] = STRIPE_PRICE_IDS.THRIVE
    /\ ret.value[2] # Undefined

====
